---- MODULE Spec2Model ----
(***************************************************************************)
(* EduTest quiz bot: the per-user quiz session engine of edubot/logic.py   *)
(* (start_quiz, send_next_question, on_button, on_text_for_match,          *)
(* finish_quiz) over the persistence layer of edubot/db.py, and the lazy   *)
(* startup of the webhook process in api/index.py (ensure_started).        *)
(*                                                                         *)
(* Conventions                                                             *)
(*  - Python None is the empty sequence <<>>, a present value x is <<x>>.  *)
(*  - Python lists are sequences; list indices stay 0-based wherever the   *)
(*    code stores them (pairs, parsed letter and number indices).          *)
(*  - A text message is a sequence of one-character strings, so that       *)
(*    upper(), replace(" ", ""), split(",") and split("-", 1) are modelled  *)
(*    character by character. A character outside printable ASCII is the   *)
(*    string "{U+XXXX}" of its code point.                                 *)
(*  - A handler is a function from a world (user_data and database) to a   *)
(*    world. It runs as a coroutine: an action applies the code between    *)
(*    two of its awaits to the current world, and the handlers of two      *)
(*    updates in flight take their steps in any order.                     *)
(***************************************************************************)
EXTENDS Integers, Sequences, FiniteSets, TLC

VARIABLES quiz, aw, db, calls, now, fails, toggles, ev, flight, srv

vars == <<quiz, aw, db, calls, now, fails, toggles, ev, flight, srv>>

\* ---------------------------------------------------------------- bounds
\* Clock ticks (minutes) the model lets pass.
MaxTime == 1
\* Persistence calls that fail in one behaviour.
MaxFail == 2
\* Comma-separated tokens in one match text.
MaxTokens == 2
\* Option presses on one rendered multi question.
MaxToggles == 3

\* ------------------------------------------------------------- utilities
None == <<>>
Some(x) == <<x>>

Min(a, b) == IF a <= b THEN a ELSE b
Max(a, b) == IF a >= b THEN a ELSE b

Range(s) == { s[i] : i \in 1..Len(s) }

\* All orders random.shuffle can leave the list s in.
Shuffles(s) ==
    LET n == Len(s)
        P == { p \in [1..n -> 1..n] : \A i, j \in 1..n : p[i] = p[j] => i = j }
    IN  { [i \in 1..n |-> s[p[i]]] : p \in P }

\* Python s[:k] for any integer k (a negative k counts from the end).
PyPrefix(s, k) ==
    IF k >= 0 THEN SubSeq(s, 1, Min(k, Len(s)))
    ELSE SubSeq(s, 1, Max(0, Len(s) + k))

\* Python list.index(v): the 0-based position of the first element equal to v.
PyIndex(s, v) ==
    (CHOOSE i \in 1..Len(s) : s[i] = v /\ \A j \in 1..(i - 1) : s[j] # v) - 1

\* ------------------------------------------------------------ the bank
\* bank/*.json as load_all_questions returns it: one list of question dicts.
\* A key the dict lacks holds the default the code's q.get(...) supplies.
Question(id, topic, type, options, answer, answers, left, right, pairs) ==
    [ id |-> id, topic |-> topic, type |-> type, options |-> options,
      answer |-> answer, answers |-> answers,
      match_left |-> left, match_right |-> right, pairs |-> pairs ]

QSingle == Question("q1", "T1", "single", <<"a", "b">>, "a", {}, <<>>, <<>>, {})
QMulti  == Question("q2", "T1", "multi", <<"a", "b">>, "", {"a"}, <<>>, <<>>, {})
QEssay  == Question("q5", "T1", "essay", <<>>, "", {}, <<>>, <<>>, {})
QMatch  == Question("q3", "T2", "match", <<>>, "", {},
                    <<"x", "y">>, <<"u", "v">>, {<<0, 0>>, <<1, 1>>})
\* Two right-hand entries with the same text.
QMatchDup == Question("q4", "T2", "match", <<>>, "", {},
                      <<"x", "y">>, <<"u", "u">>, {<<0, 0>>, <<1, 1>>})
\* A record without a "topic" key: (q.get("topic") or "") is "".
QNoTopic == Question("q6", "", "single", <<"a", "b">>, "b", {}, <<>>, <<>>, {})

\* A two-question topic: a single question and one of unknown type.
QSingle3 == Question("q7", "T3", "single", <<"a", "b">>, "a", {}, <<>>, <<>>, {})
QEssay3  == Question("q8", "T3", "essay", <<>>, "", {}, <<>>, <<>>, {})

load_all_questions ==
    <<QSingle, QEssay, QMulti, QMatch, QMatchDup, QNoTopic, QSingle3, QEssay3>>

\* The label list_topics files a question without topic under ("Без теми").
NoTopicLabel == "Bez temy"

\* list_topics: topic label -> number of questions.
list_topics ==
    LET Label(q) == IF q.topic = "" THEN NoTopicLabel ELSE q.topic
        keys == { Label(load_all_questions[i]) : i \in 1..Len(load_all_questions) }
    IN  [k \in keys |->
            Cardinality({ i \in 1..Len(load_all_questions) :
                            Label(load_all_questions[i]) = k })]

\* The sequences qs can become when every question's options are shuffled.
RECURSIVE ShuffleOptions(_)
ShuffleOptions(qs) ==
    IF qs = <<>> THEN { <<>> }
    ELSE { <<[Head(qs) EXCEPT !.options = o]>> \o rest :
              o \in Shuffles(Head(qs).options), rest \in ShuffleOptions(Tail(qs)) }

\* select_questions(topic, n): every list the two random.shuffle calls can give.
select_questions(topic, n) ==
    LET pool == SelectSeq(load_all_questions, LAMBDA q : q.topic = topic)
    IN  UNION { ShuffleOptions(PyPrefix(p, Min(n, Len(p)))) : p \in Shuffles(pool) }

\* ------------------------------------------------------------ match text
LowerLetters == << "a", "b", "c", "d", "e", "f", "g", "h", "i", "j", "k", "l", "m",
                   "n", "o", "p", "q", "r", "s", "t", "u", "v", "w", "x", "y", "z" >>
UpperLetters == << "A", "B", "C", "D", "E", "F", "G", "H", "I", "J", "K", "L", "M",
                   "N", "O", "P", "Q", "R", "S", "T", "U", "V", "W", "X", "Y", "Z" >>
DigitChars == << "0", "1", "2", "3", "4", "5", "6", "7", "8", "9" >>
\* str.upper(), character by character (the conversion does not look at a
\* character's neighbours). A character outside printable ASCII is written
\* "{U+XXXX}", its code point in hexadecimal.
\* UpperPairs: every character outside ASCII that str.upper() changes, with
\* what it becomes (one character, two or three).
UpperPairs == <<
    <<"{U+00B5}", <<"{U+039C}">>>>, <<"{U+00DF}", <<"S", "S">>>>, <<"{U+00E0}", <<"{U+00C0}">>>>,
    <<"{U+00E1}", <<"{U+00C1}">>>>, <<"{U+00E2}", <<"{U+00C2}">>>>, <<"{U+00E3}", <<"{U+00C3}">>>>,
    <<"{U+00E4}", <<"{U+00C4}">>>>, <<"{U+00E5}", <<"{U+00C5}">>>>, <<"{U+00E6}", <<"{U+00C6}">>>>,
    <<"{U+00E7}", <<"{U+00C7}">>>>, <<"{U+00E8}", <<"{U+00C8}">>>>, <<"{U+00E9}", <<"{U+00C9}">>>>,
    <<"{U+00EA}", <<"{U+00CA}">>>>, <<"{U+00EB}", <<"{U+00CB}">>>>, <<"{U+00EC}", <<"{U+00CC}">>>>,
    <<"{U+00ED}", <<"{U+00CD}">>>>, <<"{U+00EE}", <<"{U+00CE}">>>>, <<"{U+00EF}", <<"{U+00CF}">>>>,
    <<"{U+00F0}", <<"{U+00D0}">>>>, <<"{U+00F1}", <<"{U+00D1}">>>>, <<"{U+00F2}", <<"{U+00D2}">>>>,
    <<"{U+00F3}", <<"{U+00D3}">>>>, <<"{U+00F4}", <<"{U+00D4}">>>>, <<"{U+00F5}", <<"{U+00D5}">>>>,
    <<"{U+00F6}", <<"{U+00D6}">>>>, <<"{U+00F8}", <<"{U+00D8}">>>>, <<"{U+00F9}", <<"{U+00D9}">>>>,
    <<"{U+00FA}", <<"{U+00DA}">>>>, <<"{U+00FB}", <<"{U+00DB}">>>>, <<"{U+00FC}", <<"{U+00DC}">>>>,
    <<"{U+00FD}", <<"{U+00DD}">>>>, <<"{U+00FE}", <<"{U+00DE}">>>>, <<"{U+00FF}", <<"{U+0178}">>>>,
    <<"{U+0101}", <<"{U+0100}">>>>, <<"{U+0103}", <<"{U+0102}">>>>, <<"{U+0105}", <<"{U+0104}">>>>,
    <<"{U+0107}", <<"{U+0106}">>>>, <<"{U+0109}", <<"{U+0108}">>>>, <<"{U+010B}", <<"{U+010A}">>>>,
    <<"{U+010D}", <<"{U+010C}">>>>, <<"{U+010F}", <<"{U+010E}">>>>, <<"{U+0111}", <<"{U+0110}">>>>,
    <<"{U+0113}", <<"{U+0112}">>>>, <<"{U+0115}", <<"{U+0114}">>>>, <<"{U+0117}", <<"{U+0116}">>>>,
    <<"{U+0119}", <<"{U+0118}">>>>, <<"{U+011B}", <<"{U+011A}">>>>, <<"{U+011D}", <<"{U+011C}">>>>,
    <<"{U+011F}", <<"{U+011E}">>>>, <<"{U+0121}", <<"{U+0120}">>>>, <<"{U+0123}", <<"{U+0122}">>>>,
    <<"{U+0125}", <<"{U+0124}">>>>, <<"{U+0127}", <<"{U+0126}">>>>, <<"{U+0129}", <<"{U+0128}">>>>,
    <<"{U+012B}", <<"{U+012A}">>>>, <<"{U+012D}", <<"{U+012C}">>>>, <<"{U+012F}", <<"{U+012E}">>>>,
    <<"{U+0131}", <<"I">>>>, <<"{U+0133}", <<"{U+0132}">>>>, <<"{U+0135}", <<"{U+0134}">>>>,
    <<"{U+0137}", <<"{U+0136}">>>>, <<"{U+013A}", <<"{U+0139}">>>>, <<"{U+013C}", <<"{U+013B}">>>>,
    <<"{U+013E}", <<"{U+013D}">>>>, <<"{U+0140}", <<"{U+013F}">>>>, <<"{U+0142}", <<"{U+0141}">>>>,
    <<"{U+0144}", <<"{U+0143}">>>>, <<"{U+0146}", <<"{U+0145}">>>>, <<"{U+0148}", <<"{U+0147}">>>>,
    <<"{U+0149}", <<"{U+02BC}", "N">>>>, <<"{U+014B}", <<"{U+014A}">>>>,
    <<"{U+014D}", <<"{U+014C}">>>>, <<"{U+014F}", <<"{U+014E}">>>>, <<"{U+0151}", <<"{U+0150}">>>>,
    <<"{U+0153}", <<"{U+0152}">>>>, <<"{U+0155}", <<"{U+0154}">>>>, <<"{U+0157}", <<"{U+0156}">>>>,
    <<"{U+0159}", <<"{U+0158}">>>>, <<"{U+015B}", <<"{U+015A}">>>>, <<"{U+015D}", <<"{U+015C}">>>>,
    <<"{U+015F}", <<"{U+015E}">>>>, <<"{U+0161}", <<"{U+0160}">>>>, <<"{U+0163}", <<"{U+0162}">>>>,
    <<"{U+0165}", <<"{U+0164}">>>>, <<"{U+0167}", <<"{U+0166}">>>>, <<"{U+0169}", <<"{U+0168}">>>>,
    <<"{U+016B}", <<"{U+016A}">>>>, <<"{U+016D}", <<"{U+016C}">>>>, <<"{U+016F}", <<"{U+016E}">>>>,
    <<"{U+0171}", <<"{U+0170}">>>>, <<"{U+0173}", <<"{U+0172}">>>>, <<"{U+0175}", <<"{U+0174}">>>>,
    <<"{U+0177}", <<"{U+0176}">>>>, <<"{U+017A}", <<"{U+0179}">>>>, <<"{U+017C}", <<"{U+017B}">>>>,
    <<"{U+017E}", <<"{U+017D}">>>>, <<"{U+017F}", <<"S">>>>, <<"{U+0180}", <<"{U+0243}">>>>,
    <<"{U+0183}", <<"{U+0182}">>>>, <<"{U+0185}", <<"{U+0184}">>>>, <<"{U+0188}", <<"{U+0187}">>>>,
    <<"{U+018C}", <<"{U+018B}">>>>, <<"{U+0192}", <<"{U+0191}">>>>, <<"{U+0195}", <<"{U+01F6}">>>>,
    <<"{U+0199}", <<"{U+0198}">>>>, <<"{U+019A}", <<"{U+023D}">>>>, <<"{U+019E}", <<"{U+0220}">>>>,
    <<"{U+01A1}", <<"{U+01A0}">>>>, <<"{U+01A3}", <<"{U+01A2}">>>>, <<"{U+01A5}", <<"{U+01A4}">>>>,
    <<"{U+01A8}", <<"{U+01A7}">>>>, <<"{U+01AD}", <<"{U+01AC}">>>>, <<"{U+01B0}", <<"{U+01AF}">>>>,
    <<"{U+01B4}", <<"{U+01B3}">>>>, <<"{U+01B6}", <<"{U+01B5}">>>>, <<"{U+01B9}", <<"{U+01B8}">>>>,
    <<"{U+01BD}", <<"{U+01BC}">>>>, <<"{U+01BF}", <<"{U+01F7}">>>>, <<"{U+01C5}", <<"{U+01C4}">>>>,
    <<"{U+01C6}", <<"{U+01C4}">>>>, <<"{U+01C8}", <<"{U+01C7}">>>>, <<"{U+01C9}", <<"{U+01C7}">>>>,
    <<"{U+01CB}", <<"{U+01CA}">>>>, <<"{U+01CC}", <<"{U+01CA}">>>>, <<"{U+01CE}", <<"{U+01CD}">>>>,
    <<"{U+01D0}", <<"{U+01CF}">>>>, <<"{U+01D2}", <<"{U+01D1}">>>>, <<"{U+01D4}", <<"{U+01D3}">>>>,
    <<"{U+01D6}", <<"{U+01D5}">>>>, <<"{U+01D8}", <<"{U+01D7}">>>>, <<"{U+01DA}", <<"{U+01D9}">>>>,
    <<"{U+01DC}", <<"{U+01DB}">>>>, <<"{U+01DD}", <<"{U+018E}">>>>, <<"{U+01DF}", <<"{U+01DE}">>>>,
    <<"{U+01E1}", <<"{U+01E0}">>>>, <<"{U+01E3}", <<"{U+01E2}">>>>, <<"{U+01E5}", <<"{U+01E4}">>>>,
    <<"{U+01E7}", <<"{U+01E6}">>>>, <<"{U+01E9}", <<"{U+01E8}">>>>, <<"{U+01EB}", <<"{U+01EA}">>>>,
    <<"{U+01ED}", <<"{U+01EC}">>>>, <<"{U+01EF}", <<"{U+01EE}">>>>,
    <<"{U+01F0}", <<"J", "{U+030C}">>>>, <<"{U+01F2}", <<"{U+01F1}">>>>,
    <<"{U+01F3}", <<"{U+01F1}">>>>, <<"{U+01F5}", <<"{U+01F4}">>>>, <<"{U+01F9}", <<"{U+01F8}">>>>,
    <<"{U+01FB}", <<"{U+01FA}">>>>, <<"{U+01FD}", <<"{U+01FC}">>>>, <<"{U+01FF}", <<"{U+01FE}">>>>,
    <<"{U+0201}", <<"{U+0200}">>>>, <<"{U+0203}", <<"{U+0202}">>>>, <<"{U+0205}", <<"{U+0204}">>>>,
    <<"{U+0207}", <<"{U+0206}">>>>, <<"{U+0209}", <<"{U+0208}">>>>, <<"{U+020B}", <<"{U+020A}">>>>,
    <<"{U+020D}", <<"{U+020C}">>>>, <<"{U+020F}", <<"{U+020E}">>>>, <<"{U+0211}", <<"{U+0210}">>>>,
    <<"{U+0213}", <<"{U+0212}">>>>, <<"{U+0215}", <<"{U+0214}">>>>, <<"{U+0217}", <<"{U+0216}">>>>,
    <<"{U+0219}", <<"{U+0218}">>>>, <<"{U+021B}", <<"{U+021A}">>>>, <<"{U+021D}", <<"{U+021C}">>>>,
    <<"{U+021F}", <<"{U+021E}">>>>, <<"{U+0223}", <<"{U+0222}">>>>, <<"{U+0225}", <<"{U+0224}">>>>,
    <<"{U+0227}", <<"{U+0226}">>>>, <<"{U+0229}", <<"{U+0228}">>>>, <<"{U+022B}", <<"{U+022A}">>>>,
    <<"{U+022D}", <<"{U+022C}">>>>, <<"{U+022F}", <<"{U+022E}">>>>, <<"{U+0231}", <<"{U+0230}">>>>,
    <<"{U+0233}", <<"{U+0232}">>>>, <<"{U+023C}", <<"{U+023B}">>>>, <<"{U+023F}", <<"{U+2C7E}">>>>,
    <<"{U+0240}", <<"{U+2C7F}">>>>, <<"{U+0242}", <<"{U+0241}">>>>, <<"{U+0247}", <<"{U+0246}">>>>,
    <<"{U+0249}", <<"{U+0248}">>>>, <<"{U+024B}", <<"{U+024A}">>>>, <<"{U+024D}", <<"{U+024C}">>>>,
    <<"{U+024F}", <<"{U+024E}">>>>, <<"{U+0250}", <<"{U+2C6F}">>>>, <<"{U+0251}", <<"{U+2C6D}">>>>,
    <<"{U+0252}", <<"{U+2C70}">>>>, <<"{U+0253}", <<"{U+0181}">>>>, <<"{U+0254}", <<"{U+0186}">>>>,
    <<"{U+0256}", <<"{U+0189}">>>>, <<"{U+0257}", <<"{U+018A}">>>>, <<"{U+0259}", <<"{U+018F}">>>>,
    <<"{U+025B}", <<"{U+0190}">>>>, <<"{U+025C}", <<"{U+A7AB}">>>>, <<"{U+0260}", <<"{U+0193}">>>>,
    <<"{U+0261}", <<"{U+A7AC}">>>>, <<"{U+0263}", <<"{U+0194}">>>>, <<"{U+0265}", <<"{U+A78D}">>>>,
    <<"{U+0266}", <<"{U+A7AA}">>>>, <<"{U+0268}", <<"{U+0197}">>>>, <<"{U+0269}", <<"{U+0196}">>>>,
    <<"{U+026A}", <<"{U+A7AE}">>>>, <<"{U+026B}", <<"{U+2C62}">>>>, <<"{U+026C}", <<"{U+A7AD}">>>>,
    <<"{U+026F}", <<"{U+019C}">>>>, <<"{U+0271}", <<"{U+2C6E}">>>>, <<"{U+0272}", <<"{U+019D}">>>>,
    <<"{U+0275}", <<"{U+019F}">>>>, <<"{U+027D}", <<"{U+2C64}">>>>, <<"{U+0280}", <<"{U+01A6}">>>>,
    <<"{U+0282}", <<"{U+A7C5}">>>>, <<"{U+0283}", <<"{U+01A9}">>>>, <<"{U+0287}", <<"{U+A7B1}">>>>,
    <<"{U+0288}", <<"{U+01AE}">>>>, <<"{U+0289}", <<"{U+0244}">>>>, <<"{U+028A}", <<"{U+01B1}">>>>,
    <<"{U+028B}", <<"{U+01B2}">>>>, <<"{U+028C}", <<"{U+0245}">>>>, <<"{U+0292}", <<"{U+01B7}">>>>,
    <<"{U+029D}", <<"{U+A7B2}">>>>, <<"{U+029E}", <<"{U+A7B0}">>>>, <<"{U+0345}", <<"{U+0399}">>>>,
    <<"{U+0371}", <<"{U+0370}">>>>, <<"{U+0373}", <<"{U+0372}">>>>, <<"{U+0377}", <<"{U+0376}">>>>,
    <<"{U+037B}", <<"{U+03FD}">>>>, <<"{U+037C}", <<"{U+03FE}">>>>, <<"{U+037D}", <<"{U+03FF}">>>>,
    <<"{U+0390}", <<"{U+0399}", "{U+0308}", "{U+0301}">>>>, <<"{U+03AC}", <<"{U+0386}">>>>,
    <<"{U+03AD}", <<"{U+0388}">>>>, <<"{U+03AE}", <<"{U+0389}">>>>, <<"{U+03AF}", <<"{U+038A}">>>>,
    <<"{U+03B0}", <<"{U+03A5}", "{U+0308}", "{U+0301}">>>>, <<"{U+03B1}", <<"{U+0391}">>>>,
    <<"{U+03B2}", <<"{U+0392}">>>>, <<"{U+03B3}", <<"{U+0393}">>>>, <<"{U+03B4}", <<"{U+0394}">>>>,
    <<"{U+03B5}", <<"{U+0395}">>>>, <<"{U+03B6}", <<"{U+0396}">>>>, <<"{U+03B7}", <<"{U+0397}">>>>,
    <<"{U+03B8}", <<"{U+0398}">>>>, <<"{U+03B9}", <<"{U+0399}">>>>, <<"{U+03BA}", <<"{U+039A}">>>>,
    <<"{U+03BB}", <<"{U+039B}">>>>, <<"{U+03BC}", <<"{U+039C}">>>>, <<"{U+03BD}", <<"{U+039D}">>>>,
    <<"{U+03BE}", <<"{U+039E}">>>>, <<"{U+03BF}", <<"{U+039F}">>>>, <<"{U+03C0}", <<"{U+03A0}">>>>,
    <<"{U+03C1}", <<"{U+03A1}">>>>, <<"{U+03C2}", <<"{U+03A3}">>>>, <<"{U+03C3}", <<"{U+03A3}">>>>,
    <<"{U+03C4}", <<"{U+03A4}">>>>, <<"{U+03C5}", <<"{U+03A5}">>>>, <<"{U+03C6}", <<"{U+03A6}">>>>,
    <<"{U+03C7}", <<"{U+03A7}">>>>, <<"{U+03C8}", <<"{U+03A8}">>>>, <<"{U+03C9}", <<"{U+03A9}">>>>,
    <<"{U+03CA}", <<"{U+03AA}">>>>, <<"{U+03CB}", <<"{U+03AB}">>>>, <<"{U+03CC}", <<"{U+038C}">>>>,
    <<"{U+03CD}", <<"{U+038E}">>>>, <<"{U+03CE}", <<"{U+038F}">>>>, <<"{U+03D0}", <<"{U+0392}">>>>,
    <<"{U+03D1}", <<"{U+0398}">>>>, <<"{U+03D5}", <<"{U+03A6}">>>>, <<"{U+03D6}", <<"{U+03A0}">>>>,
    <<"{U+03D7}", <<"{U+03CF}">>>>, <<"{U+03D9}", <<"{U+03D8}">>>>, <<"{U+03DB}", <<"{U+03DA}">>>>,
    <<"{U+03DD}", <<"{U+03DC}">>>>, <<"{U+03DF}", <<"{U+03DE}">>>>, <<"{U+03E1}", <<"{U+03E0}">>>>,
    <<"{U+03E3}", <<"{U+03E2}">>>>, <<"{U+03E5}", <<"{U+03E4}">>>>, <<"{U+03E7}", <<"{U+03E6}">>>>,
    <<"{U+03E9}", <<"{U+03E8}">>>>, <<"{U+03EB}", <<"{U+03EA}">>>>, <<"{U+03ED}", <<"{U+03EC}">>>>,
    <<"{U+03EF}", <<"{U+03EE}">>>>, <<"{U+03F0}", <<"{U+039A}">>>>, <<"{U+03F1}", <<"{U+03A1}">>>>,
    <<"{U+03F2}", <<"{U+03F9}">>>>, <<"{U+03F3}", <<"{U+037F}">>>>, <<"{U+03F5}", <<"{U+0395}">>>>,
    <<"{U+03F8}", <<"{U+03F7}">>>>, <<"{U+03FB}", <<"{U+03FA}">>>>, <<"{U+0430}", <<"{U+0410}">>>>,
    <<"{U+0431}", <<"{U+0411}">>>>, <<"{U+0432}", <<"{U+0412}">>>>, <<"{U+0433}", <<"{U+0413}">>>>,
    <<"{U+0434}", <<"{U+0414}">>>>, <<"{U+0435}", <<"{U+0415}">>>>, <<"{U+0436}", <<"{U+0416}">>>>,
    <<"{U+0437}", <<"{U+0417}">>>>, <<"{U+0438}", <<"{U+0418}">>>>, <<"{U+0439}", <<"{U+0419}">>>>,
    <<"{U+043A}", <<"{U+041A}">>>>, <<"{U+043B}", <<"{U+041B}">>>>, <<"{U+043C}", <<"{U+041C}">>>>,
    <<"{U+043D}", <<"{U+041D}">>>>, <<"{U+043E}", <<"{U+041E}">>>>, <<"{U+043F}", <<"{U+041F}">>>>,
    <<"{U+0440}", <<"{U+0420}">>>>, <<"{U+0441}", <<"{U+0421}">>>>, <<"{U+0442}", <<"{U+0422}">>>>,
    <<"{U+0443}", <<"{U+0423}">>>>, <<"{U+0444}", <<"{U+0424}">>>>, <<"{U+0445}", <<"{U+0425}">>>>,
    <<"{U+0446}", <<"{U+0426}">>>>, <<"{U+0447}", <<"{U+0427}">>>>, <<"{U+0448}", <<"{U+0428}">>>>,
    <<"{U+0449}", <<"{U+0429}">>>>, <<"{U+044A}", <<"{U+042A}">>>>, <<"{U+044B}", <<"{U+042B}">>>>,
    <<"{U+044C}", <<"{U+042C}">>>>, <<"{U+044D}", <<"{U+042D}">>>>, <<"{U+044E}", <<"{U+042E}">>>>,
    <<"{U+044F}", <<"{U+042F}">>>>, <<"{U+0450}", <<"{U+0400}">>>>, <<"{U+0451}", <<"{U+0401}">>>>,
    <<"{U+0452}", <<"{U+0402}">>>>, <<"{U+0453}", <<"{U+0403}">>>>, <<"{U+0454}", <<"{U+0404}">>>>,
    <<"{U+0455}", <<"{U+0405}">>>>, <<"{U+0456}", <<"{U+0406}">>>>, <<"{U+0457}", <<"{U+0407}">>>>,
    <<"{U+0458}", <<"{U+0408}">>>>, <<"{U+0459}", <<"{U+0409}">>>>, <<"{U+045A}", <<"{U+040A}">>>>,
    <<"{U+045B}", <<"{U+040B}">>>>, <<"{U+045C}", <<"{U+040C}">>>>, <<"{U+045D}", <<"{U+040D}">>>>,
    <<"{U+045E}", <<"{U+040E}">>>>, <<"{U+045F}", <<"{U+040F}">>>>, <<"{U+0461}", <<"{U+0460}">>>>,
    <<"{U+0463}", <<"{U+0462}">>>>, <<"{U+0465}", <<"{U+0464}">>>>, <<"{U+0467}", <<"{U+0466}">>>>,
    <<"{U+0469}", <<"{U+0468}">>>>, <<"{U+046B}", <<"{U+046A}">>>>, <<"{U+046D}", <<"{U+046C}">>>>,
    <<"{U+046F}", <<"{U+046E}">>>>, <<"{U+0471}", <<"{U+0470}">>>>, <<"{U+0473}", <<"{U+0472}">>>>,
    <<"{U+0475}", <<"{U+0474}">>>>, <<"{U+0477}", <<"{U+0476}">>>>, <<"{U+0479}", <<"{U+0478}">>>>,
    <<"{U+047B}", <<"{U+047A}">>>>, <<"{U+047D}", <<"{U+047C}">>>>, <<"{U+047F}", <<"{U+047E}">>>>,
    <<"{U+0481}", <<"{U+0480}">>>>, <<"{U+048B}", <<"{U+048A}">>>>, <<"{U+048D}", <<"{U+048C}">>>>,
    <<"{U+048F}", <<"{U+048E}">>>>, <<"{U+0491}", <<"{U+0490}">>>>, <<"{U+0493}", <<"{U+0492}">>>>,
    <<"{U+0495}", <<"{U+0494}">>>>, <<"{U+0497}", <<"{U+0496}">>>>, <<"{U+0499}", <<"{U+0498}">>>>,
    <<"{U+049B}", <<"{U+049A}">>>>, <<"{U+049D}", <<"{U+049C}">>>>, <<"{U+049F}", <<"{U+049E}">>>>,
    <<"{U+04A1}", <<"{U+04A0}">>>>, <<"{U+04A3}", <<"{U+04A2}">>>>, <<"{U+04A5}", <<"{U+04A4}">>>>,
    <<"{U+04A7}", <<"{U+04A6}">>>>, <<"{U+04A9}", <<"{U+04A8}">>>>, <<"{U+04AB}", <<"{U+04AA}">>>>,
    <<"{U+04AD}", <<"{U+04AC}">>>>, <<"{U+04AF}", <<"{U+04AE}">>>>, <<"{U+04B1}", <<"{U+04B0}">>>>,
    <<"{U+04B3}", <<"{U+04B2}">>>>, <<"{U+04B5}", <<"{U+04B4}">>>>, <<"{U+04B7}", <<"{U+04B6}">>>>,
    <<"{U+04B9}", <<"{U+04B8}">>>>, <<"{U+04BB}", <<"{U+04BA}">>>>, <<"{U+04BD}", <<"{U+04BC}">>>>,
    <<"{U+04BF}", <<"{U+04BE}">>>>, <<"{U+04C2}", <<"{U+04C1}">>>>, <<"{U+04C4}", <<"{U+04C3}">>>>,
    <<"{U+04C6}", <<"{U+04C5}">>>>, <<"{U+04C8}", <<"{U+04C7}">>>>, <<"{U+04CA}", <<"{U+04C9}">>>>,
    <<"{U+04CC}", <<"{U+04CB}">>>>, <<"{U+04CE}", <<"{U+04CD}">>>>, <<"{U+04CF}", <<"{U+04C0}">>>>,
    <<"{U+04D1}", <<"{U+04D0}">>>>, <<"{U+04D3}", <<"{U+04D2}">>>>, <<"{U+04D5}", <<"{U+04D4}">>>>,
    <<"{U+04D7}", <<"{U+04D6}">>>>, <<"{U+04D9}", <<"{U+04D8}">>>>, <<"{U+04DB}", <<"{U+04DA}">>>>,
    <<"{U+04DD}", <<"{U+04DC}">>>>, <<"{U+04DF}", <<"{U+04DE}">>>>, <<"{U+04E1}", <<"{U+04E0}">>>>,
    <<"{U+04E3}", <<"{U+04E2}">>>>, <<"{U+04E5}", <<"{U+04E4}">>>>, <<"{U+04E7}", <<"{U+04E6}">>>>,
    <<"{U+04E9}", <<"{U+04E8}">>>>, <<"{U+04EB}", <<"{U+04EA}">>>>, <<"{U+04ED}", <<"{U+04EC}">>>>,
    <<"{U+04EF}", <<"{U+04EE}">>>>, <<"{U+04F1}", <<"{U+04F0}">>>>, <<"{U+04F3}", <<"{U+04F2}">>>>,
    <<"{U+04F5}", <<"{U+04F4}">>>>, <<"{U+04F7}", <<"{U+04F6}">>>>, <<"{U+04F9}", <<"{U+04F8}">>>>,
    <<"{U+04FB}", <<"{U+04FA}">>>>, <<"{U+04FD}", <<"{U+04FC}">>>>, <<"{U+04FF}", <<"{U+04FE}">>>>,
    <<"{U+0501}", <<"{U+0500}">>>>, <<"{U+0503}", <<"{U+0502}">>>>, <<"{U+0505}", <<"{U+0504}">>>>,
    <<"{U+0507}", <<"{U+0506}">>>>, <<"{U+0509}", <<"{U+0508}">>>>, <<"{U+050B}", <<"{U+050A}">>>>,
    <<"{U+050D}", <<"{U+050C}">>>>, <<"{U+050F}", <<"{U+050E}">>>>, <<"{U+0511}", <<"{U+0510}">>>>,
    <<"{U+0513}", <<"{U+0512}">>>>, <<"{U+0515}", <<"{U+0514}">>>>, <<"{U+0517}", <<"{U+0516}">>>>,
    <<"{U+0519}", <<"{U+0518}">>>>, <<"{U+051B}", <<"{U+051A}">>>>, <<"{U+051D}", <<"{U+051C}">>>>,
    <<"{U+051F}", <<"{U+051E}">>>>, <<"{U+0521}", <<"{U+0520}">>>>, <<"{U+0523}", <<"{U+0522}">>>>,
    <<"{U+0525}", <<"{U+0524}">>>>, <<"{U+0527}", <<"{U+0526}">>>>, <<"{U+0529}", <<"{U+0528}">>>>,
    <<"{U+052B}", <<"{U+052A}">>>>, <<"{U+052D}", <<"{U+052C}">>>>, <<"{U+052F}", <<"{U+052E}">>>>,
    <<"{U+0561}", <<"{U+0531}">>>>, <<"{U+0562}", <<"{U+0532}">>>>, <<"{U+0563}", <<"{U+0533}">>>>,
    <<"{U+0564}", <<"{U+0534}">>>>, <<"{U+0565}", <<"{U+0535}">>>>, <<"{U+0566}", <<"{U+0536}">>>>,
    <<"{U+0567}", <<"{U+0537}">>>>, <<"{U+0568}", <<"{U+0538}">>>>, <<"{U+0569}", <<"{U+0539}">>>>,
    <<"{U+056A}", <<"{U+053A}">>>>, <<"{U+056B}", <<"{U+053B}">>>>, <<"{U+056C}", <<"{U+053C}">>>>,
    <<"{U+056D}", <<"{U+053D}">>>>, <<"{U+056E}", <<"{U+053E}">>>>, <<"{U+056F}", <<"{U+053F}">>>>,
    <<"{U+0570}", <<"{U+0540}">>>>, <<"{U+0571}", <<"{U+0541}">>>>, <<"{U+0572}", <<"{U+0542}">>>>,
    <<"{U+0573}", <<"{U+0543}">>>>, <<"{U+0574}", <<"{U+0544}">>>>, <<"{U+0575}", <<"{U+0545}">>>>,
    <<"{U+0576}", <<"{U+0546}">>>>, <<"{U+0577}", <<"{U+0547}">>>>, <<"{U+0578}", <<"{U+0548}">>>>,
    <<"{U+0579}", <<"{U+0549}">>>>, <<"{U+057A}", <<"{U+054A}">>>>, <<"{U+057B}", <<"{U+054B}">>>>,
    <<"{U+057C}", <<"{U+054C}">>>>, <<"{U+057D}", <<"{U+054D}">>>>, <<"{U+057E}", <<"{U+054E}">>>>,
    <<"{U+057F}", <<"{U+054F}">>>>, <<"{U+0580}", <<"{U+0550}">>>>, <<"{U+0581}", <<"{U+0551}">>>>,
    <<"{U+0582}", <<"{U+0552}">>>>, <<"{U+0583}", <<"{U+0553}">>>>, <<"{U+0584}", <<"{U+0554}">>>>,
    <<"{U+0585}", <<"{U+0555}">>>>, <<"{U+0586}", <<"{U+0556}">>>>,
    <<"{U+0587}", <<"{U+0535}", "{U+0552}">>>>, <<"{U+10D0}", <<"{U+1C90}">>>>,
    <<"{U+10D1}", <<"{U+1C91}">>>>, <<"{U+10D2}", <<"{U+1C92}">>>>, <<"{U+10D3}", <<"{U+1C93}">>>>,
    <<"{U+10D4}", <<"{U+1C94}">>>>, <<"{U+10D5}", <<"{U+1C95}">>>>, <<"{U+10D6}", <<"{U+1C96}">>>>,
    <<"{U+10D7}", <<"{U+1C97}">>>>, <<"{U+10D8}", <<"{U+1C98}">>>>, <<"{U+10D9}", <<"{U+1C99}">>>>,
    <<"{U+10DA}", <<"{U+1C9A}">>>>, <<"{U+10DB}", <<"{U+1C9B}">>>>, <<"{U+10DC}", <<"{U+1C9C}">>>>,
    <<"{U+10DD}", <<"{U+1C9D}">>>>, <<"{U+10DE}", <<"{U+1C9E}">>>>, <<"{U+10DF}", <<"{U+1C9F}">>>>,
    <<"{U+10E0}", <<"{U+1CA0}">>>>, <<"{U+10E1}", <<"{U+1CA1}">>>>, <<"{U+10E2}", <<"{U+1CA2}">>>>,
    <<"{U+10E3}", <<"{U+1CA3}">>>>, <<"{U+10E4}", <<"{U+1CA4}">>>>, <<"{U+10E5}", <<"{U+1CA5}">>>>,
    <<"{U+10E6}", <<"{U+1CA6}">>>>, <<"{U+10E7}", <<"{U+1CA7}">>>>, <<"{U+10E8}", <<"{U+1CA8}">>>>,
    <<"{U+10E9}", <<"{U+1CA9}">>>>, <<"{U+10EA}", <<"{U+1CAA}">>>>, <<"{U+10EB}", <<"{U+1CAB}">>>>,
    <<"{U+10EC}", <<"{U+1CAC}">>>>, <<"{U+10ED}", <<"{U+1CAD}">>>>, <<"{U+10EE}", <<"{U+1CAE}">>>>,
    <<"{U+10EF}", <<"{U+1CAF}">>>>, <<"{U+10F0}", <<"{U+1CB0}">>>>, <<"{U+10F1}", <<"{U+1CB1}">>>>,
    <<"{U+10F2}", <<"{U+1CB2}">>>>, <<"{U+10F3}", <<"{U+1CB3}">>>>, <<"{U+10F4}", <<"{U+1CB4}">>>>,
    <<"{U+10F5}", <<"{U+1CB5}">>>>, <<"{U+10F6}", <<"{U+1CB6}">>>>, <<"{U+10F7}", <<"{U+1CB7}">>>>,
    <<"{U+10F8}", <<"{U+1CB8}">>>>, <<"{U+10F9}", <<"{U+1CB9}">>>>, <<"{U+10FA}", <<"{U+1CBA}">>>>,
    <<"{U+10FD}", <<"{U+1CBD}">>>>, <<"{U+10FE}", <<"{U+1CBE}">>>>, <<"{U+10FF}", <<"{U+1CBF}">>>>,
    <<"{U+13F8}", <<"{U+13F0}">>>>, <<"{U+13F9}", <<"{U+13F1}">>>>, <<"{U+13FA}", <<"{U+13F2}">>>>,
    <<"{U+13FB}", <<"{U+13F3}">>>>, <<"{U+13FC}", <<"{U+13F4}">>>>, <<"{U+13FD}", <<"{U+13F5}">>>>,
    <<"{U+1C80}", <<"{U+0412}">>>>, <<"{U+1C81}", <<"{U+0414}">>>>, <<"{U+1C82}", <<"{U+041E}">>>>,
    <<"{U+1C83}", <<"{U+0421}">>>>, <<"{U+1C84}", <<"{U+0422}">>>>, <<"{U+1C85}", <<"{U+0422}">>>>,
    <<"{U+1C86}", <<"{U+042A}">>>>, <<"{U+1C87}", <<"{U+0462}">>>>, <<"{U+1C88}", <<"{U+A64A}">>>>,
    <<"{U+1D79}", <<"{U+A77D}">>>>, <<"{U+1D7D}", <<"{U+2C63}">>>>, <<"{U+1D8E}", <<"{U+A7C6}">>>>,
    <<"{U+1E01}", <<"{U+1E00}">>>>, <<"{U+1E03}", <<"{U+1E02}">>>>, <<"{U+1E05}", <<"{U+1E04}">>>>,
    <<"{U+1E07}", <<"{U+1E06}">>>>, <<"{U+1E09}", <<"{U+1E08}">>>>, <<"{U+1E0B}", <<"{U+1E0A}">>>>,
    <<"{U+1E0D}", <<"{U+1E0C}">>>>, <<"{U+1E0F}", <<"{U+1E0E}">>>>, <<"{U+1E11}", <<"{U+1E10}">>>>,
    <<"{U+1E13}", <<"{U+1E12}">>>>, <<"{U+1E15}", <<"{U+1E14}">>>>, <<"{U+1E17}", <<"{U+1E16}">>>>,
    <<"{U+1E19}", <<"{U+1E18}">>>>, <<"{U+1E1B}", <<"{U+1E1A}">>>>, <<"{U+1E1D}", <<"{U+1E1C}">>>>,
    <<"{U+1E1F}", <<"{U+1E1E}">>>>, <<"{U+1E21}", <<"{U+1E20}">>>>, <<"{U+1E23}", <<"{U+1E22}">>>>,
    <<"{U+1E25}", <<"{U+1E24}">>>>, <<"{U+1E27}", <<"{U+1E26}">>>>, <<"{U+1E29}", <<"{U+1E28}">>>>,
    <<"{U+1E2B}", <<"{U+1E2A}">>>>, <<"{U+1E2D}", <<"{U+1E2C}">>>>, <<"{U+1E2F}", <<"{U+1E2E}">>>>,
    <<"{U+1E31}", <<"{U+1E30}">>>>, <<"{U+1E33}", <<"{U+1E32}">>>>, <<"{U+1E35}", <<"{U+1E34}">>>>,
    <<"{U+1E37}", <<"{U+1E36}">>>>, <<"{U+1E39}", <<"{U+1E38}">>>>, <<"{U+1E3B}", <<"{U+1E3A}">>>>,
    <<"{U+1E3D}", <<"{U+1E3C}">>>>, <<"{U+1E3F}", <<"{U+1E3E}">>>>, <<"{U+1E41}", <<"{U+1E40}">>>>,
    <<"{U+1E43}", <<"{U+1E42}">>>>, <<"{U+1E45}", <<"{U+1E44}">>>>, <<"{U+1E47}", <<"{U+1E46}">>>>,
    <<"{U+1E49}", <<"{U+1E48}">>>>, <<"{U+1E4B}", <<"{U+1E4A}">>>>, <<"{U+1E4D}", <<"{U+1E4C}">>>>,
    <<"{U+1E4F}", <<"{U+1E4E}">>>>, <<"{U+1E51}", <<"{U+1E50}">>>>, <<"{U+1E53}", <<"{U+1E52}">>>>,
    <<"{U+1E55}", <<"{U+1E54}">>>>, <<"{U+1E57}", <<"{U+1E56}">>>>, <<"{U+1E59}", <<"{U+1E58}">>>>,
    <<"{U+1E5B}", <<"{U+1E5A}">>>>, <<"{U+1E5D}", <<"{U+1E5C}">>>>, <<"{U+1E5F}", <<"{U+1E5E}">>>>,
    <<"{U+1E61}", <<"{U+1E60}">>>>, <<"{U+1E63}", <<"{U+1E62}">>>>, <<"{U+1E65}", <<"{U+1E64}">>>>,
    <<"{U+1E67}", <<"{U+1E66}">>>>, <<"{U+1E69}", <<"{U+1E68}">>>>, <<"{U+1E6B}", <<"{U+1E6A}">>>>,
    <<"{U+1E6D}", <<"{U+1E6C}">>>>, <<"{U+1E6F}", <<"{U+1E6E}">>>>, <<"{U+1E71}", <<"{U+1E70}">>>>,
    <<"{U+1E73}", <<"{U+1E72}">>>>, <<"{U+1E75}", <<"{U+1E74}">>>>, <<"{U+1E77}", <<"{U+1E76}">>>>,
    <<"{U+1E79}", <<"{U+1E78}">>>>, <<"{U+1E7B}", <<"{U+1E7A}">>>>, <<"{U+1E7D}", <<"{U+1E7C}">>>>,
    <<"{U+1E7F}", <<"{U+1E7E}">>>>, <<"{U+1E81}", <<"{U+1E80}">>>>, <<"{U+1E83}", <<"{U+1E82}">>>>,
    <<"{U+1E85}", <<"{U+1E84}">>>>, <<"{U+1E87}", <<"{U+1E86}">>>>, <<"{U+1E89}", <<"{U+1E88}">>>>,
    <<"{U+1E8B}", <<"{U+1E8A}">>>>, <<"{U+1E8D}", <<"{U+1E8C}">>>>, <<"{U+1E8F}", <<"{U+1E8E}">>>>,
    <<"{U+1E91}", <<"{U+1E90}">>>>, <<"{U+1E93}", <<"{U+1E92}">>>>, <<"{U+1E95}", <<"{U+1E94}">>>>,
    <<"{U+1E96}", <<"H", "{U+0331}">>>>, <<"{U+1E97}", <<"T", "{U+0308}">>>>,
    <<"{U+1E98}", <<"W", "{U+030A}">>>>, <<"{U+1E99}", <<"Y", "{U+030A}">>>>,
    <<"{U+1E9A}", <<"A", "{U+02BE}">>>>, <<"{U+1E9B}", <<"{U+1E60}">>>>,
    <<"{U+1EA1}", <<"{U+1EA0}">>>>, <<"{U+1EA3}", <<"{U+1EA2}">>>>, <<"{U+1EA5}", <<"{U+1EA4}">>>>,
    <<"{U+1EA7}", <<"{U+1EA6}">>>>, <<"{U+1EA9}", <<"{U+1EA8}">>>>, <<"{U+1EAB}", <<"{U+1EAA}">>>>,
    <<"{U+1EAD}", <<"{U+1EAC}">>>>, <<"{U+1EAF}", <<"{U+1EAE}">>>>, <<"{U+1EB1}", <<"{U+1EB0}">>>>,
    <<"{U+1EB3}", <<"{U+1EB2}">>>>, <<"{U+1EB5}", <<"{U+1EB4}">>>>, <<"{U+1EB7}", <<"{U+1EB6}">>>>,
    <<"{U+1EB9}", <<"{U+1EB8}">>>>, <<"{U+1EBB}", <<"{U+1EBA}">>>>, <<"{U+1EBD}", <<"{U+1EBC}">>>>,
    <<"{U+1EBF}", <<"{U+1EBE}">>>>, <<"{U+1EC1}", <<"{U+1EC0}">>>>, <<"{U+1EC3}", <<"{U+1EC2}">>>>,
    <<"{U+1EC5}", <<"{U+1EC4}">>>>, <<"{U+1EC7}", <<"{U+1EC6}">>>>, <<"{U+1EC9}", <<"{U+1EC8}">>>>,
    <<"{U+1ECB}", <<"{U+1ECA}">>>>, <<"{U+1ECD}", <<"{U+1ECC}">>>>, <<"{U+1ECF}", <<"{U+1ECE}">>>>,
    <<"{U+1ED1}", <<"{U+1ED0}">>>>, <<"{U+1ED3}", <<"{U+1ED2}">>>>, <<"{U+1ED5}", <<"{U+1ED4}">>>>,
    <<"{U+1ED7}", <<"{U+1ED6}">>>>, <<"{U+1ED9}", <<"{U+1ED8}">>>>, <<"{U+1EDB}", <<"{U+1EDA}">>>>,
    <<"{U+1EDD}", <<"{U+1EDC}">>>>, <<"{U+1EDF}", <<"{U+1EDE}">>>>, <<"{U+1EE1}", <<"{U+1EE0}">>>>,
    <<"{U+1EE3}", <<"{U+1EE2}">>>>, <<"{U+1EE5}", <<"{U+1EE4}">>>>, <<"{U+1EE7}", <<"{U+1EE6}">>>>,
    <<"{U+1EE9}", <<"{U+1EE8}">>>>, <<"{U+1EEB}", <<"{U+1EEA}">>>>, <<"{U+1EED}", <<"{U+1EEC}">>>>,
    <<"{U+1EEF}", <<"{U+1EEE}">>>>, <<"{U+1EF1}", <<"{U+1EF0}">>>>, <<"{U+1EF3}", <<"{U+1EF2}">>>>,
    <<"{U+1EF5}", <<"{U+1EF4}">>>>, <<"{U+1EF7}", <<"{U+1EF6}">>>>, <<"{U+1EF9}", <<"{U+1EF8}">>>>,
    <<"{U+1EFB}", <<"{U+1EFA}">>>>, <<"{U+1EFD}", <<"{U+1EFC}">>>>, <<"{U+1EFF}", <<"{U+1EFE}">>>>,
    <<"{U+1F00}", <<"{U+1F08}">>>>, <<"{U+1F01}", <<"{U+1F09}">>>>, <<"{U+1F02}", <<"{U+1F0A}">>>>,
    <<"{U+1F03}", <<"{U+1F0B}">>>>, <<"{U+1F04}", <<"{U+1F0C}">>>>, <<"{U+1F05}", <<"{U+1F0D}">>>>,
    <<"{U+1F06}", <<"{U+1F0E}">>>>, <<"{U+1F07}", <<"{U+1F0F}">>>>, <<"{U+1F10}", <<"{U+1F18}">>>>,
    <<"{U+1F11}", <<"{U+1F19}">>>>, <<"{U+1F12}", <<"{U+1F1A}">>>>, <<"{U+1F13}", <<"{U+1F1B}">>>>,
    <<"{U+1F14}", <<"{U+1F1C}">>>>, <<"{U+1F15}", <<"{U+1F1D}">>>>, <<"{U+1F20}", <<"{U+1F28}">>>>,
    <<"{U+1F21}", <<"{U+1F29}">>>>, <<"{U+1F22}", <<"{U+1F2A}">>>>, <<"{U+1F23}", <<"{U+1F2B}">>>>,
    <<"{U+1F24}", <<"{U+1F2C}">>>>, <<"{U+1F25}", <<"{U+1F2D}">>>>, <<"{U+1F26}", <<"{U+1F2E}">>>>,
    <<"{U+1F27}", <<"{U+1F2F}">>>>, <<"{U+1F30}", <<"{U+1F38}">>>>, <<"{U+1F31}", <<"{U+1F39}">>>>,
    <<"{U+1F32}", <<"{U+1F3A}">>>>, <<"{U+1F33}", <<"{U+1F3B}">>>>, <<"{U+1F34}", <<"{U+1F3C}">>>>,
    <<"{U+1F35}", <<"{U+1F3D}">>>>, <<"{U+1F36}", <<"{U+1F3E}">>>>, <<"{U+1F37}", <<"{U+1F3F}">>>>,
    <<"{U+1F40}", <<"{U+1F48}">>>>, <<"{U+1F41}", <<"{U+1F49}">>>>, <<"{U+1F42}", <<"{U+1F4A}">>>>,
    <<"{U+1F43}", <<"{U+1F4B}">>>>, <<"{U+1F44}", <<"{U+1F4C}">>>>, <<"{U+1F45}", <<"{U+1F4D}">>>>,
    <<"{U+1F50}", <<"{U+03A5}", "{U+0313}">>>>, <<"{U+1F51}", <<"{U+1F59}">>>>,
    <<"{U+1F52}", <<"{U+03A5}", "{U+0313}", "{U+0300}">>>>, <<"{U+1F53}", <<"{U+1F5B}">>>>,
    <<"{U+1F54}", <<"{U+03A5}", "{U+0313}", "{U+0301}">>>>, <<"{U+1F55}", <<"{U+1F5D}">>>>,
    <<"{U+1F56}", <<"{U+03A5}", "{U+0313}", "{U+0342}">>>>, <<"{U+1F57}", <<"{U+1F5F}">>>>,
    <<"{U+1F60}", <<"{U+1F68}">>>>, <<"{U+1F61}", <<"{U+1F69}">>>>, <<"{U+1F62}", <<"{U+1F6A}">>>>,
    <<"{U+1F63}", <<"{U+1F6B}">>>>, <<"{U+1F64}", <<"{U+1F6C}">>>>, <<"{U+1F65}", <<"{U+1F6D}">>>>,
    <<"{U+1F66}", <<"{U+1F6E}">>>>, <<"{U+1F67}", <<"{U+1F6F}">>>>, <<"{U+1F70}", <<"{U+1FBA}">>>>,
    <<"{U+1F71}", <<"{U+1FBB}">>>>, <<"{U+1F72}", <<"{U+1FC8}">>>>, <<"{U+1F73}", <<"{U+1FC9}">>>>,
    <<"{U+1F74}", <<"{U+1FCA}">>>>, <<"{U+1F75}", <<"{U+1FCB}">>>>, <<"{U+1F76}", <<"{U+1FDA}">>>>,
    <<"{U+1F77}", <<"{U+1FDB}">>>>, <<"{U+1F78}", <<"{U+1FF8}">>>>, <<"{U+1F79}", <<"{U+1FF9}">>>>,
    <<"{U+1F7A}", <<"{U+1FEA}">>>>, <<"{U+1F7B}", <<"{U+1FEB}">>>>, <<"{U+1F7C}", <<"{U+1FFA}">>>>,
    <<"{U+1F7D}", <<"{U+1FFB}">>>>, <<"{U+1F80}", <<"{U+1F08}", "{U+0399}">>>>,
    <<"{U+1F81}", <<"{U+1F09}", "{U+0399}">>>>, <<"{U+1F82}", <<"{U+1F0A}", "{U+0399}">>>>,
    <<"{U+1F83}", <<"{U+1F0B}", "{U+0399}">>>>, <<"{U+1F84}", <<"{U+1F0C}", "{U+0399}">>>>,
    <<"{U+1F85}", <<"{U+1F0D}", "{U+0399}">>>>, <<"{U+1F86}", <<"{U+1F0E}", "{U+0399}">>>>,
    <<"{U+1F87}", <<"{U+1F0F}", "{U+0399}">>>>, <<"{U+1F88}", <<"{U+1F08}", "{U+0399}">>>>,
    <<"{U+1F89}", <<"{U+1F09}", "{U+0399}">>>>, <<"{U+1F8A}", <<"{U+1F0A}", "{U+0399}">>>>,
    <<"{U+1F8B}", <<"{U+1F0B}", "{U+0399}">>>>, <<"{U+1F8C}", <<"{U+1F0C}", "{U+0399}">>>>,
    <<"{U+1F8D}", <<"{U+1F0D}", "{U+0399}">>>>, <<"{U+1F8E}", <<"{U+1F0E}", "{U+0399}">>>>,
    <<"{U+1F8F}", <<"{U+1F0F}", "{U+0399}">>>>, <<"{U+1F90}", <<"{U+1F28}", "{U+0399}">>>>,
    <<"{U+1F91}", <<"{U+1F29}", "{U+0399}">>>>, <<"{U+1F92}", <<"{U+1F2A}", "{U+0399}">>>>,
    <<"{U+1F93}", <<"{U+1F2B}", "{U+0399}">>>>, <<"{U+1F94}", <<"{U+1F2C}", "{U+0399}">>>>,
    <<"{U+1F95}", <<"{U+1F2D}", "{U+0399}">>>>, <<"{U+1F96}", <<"{U+1F2E}", "{U+0399}">>>>,
    <<"{U+1F97}", <<"{U+1F2F}", "{U+0399}">>>>, <<"{U+1F98}", <<"{U+1F28}", "{U+0399}">>>>,
    <<"{U+1F99}", <<"{U+1F29}", "{U+0399}">>>>, <<"{U+1F9A}", <<"{U+1F2A}", "{U+0399}">>>>,
    <<"{U+1F9B}", <<"{U+1F2B}", "{U+0399}">>>>, <<"{U+1F9C}", <<"{U+1F2C}", "{U+0399}">>>>,
    <<"{U+1F9D}", <<"{U+1F2D}", "{U+0399}">>>>, <<"{U+1F9E}", <<"{U+1F2E}", "{U+0399}">>>>,
    <<"{U+1F9F}", <<"{U+1F2F}", "{U+0399}">>>>, <<"{U+1FA0}", <<"{U+1F68}", "{U+0399}">>>>,
    <<"{U+1FA1}", <<"{U+1F69}", "{U+0399}">>>>, <<"{U+1FA2}", <<"{U+1F6A}", "{U+0399}">>>>,
    <<"{U+1FA3}", <<"{U+1F6B}", "{U+0399}">>>>, <<"{U+1FA4}", <<"{U+1F6C}", "{U+0399}">>>>,
    <<"{U+1FA5}", <<"{U+1F6D}", "{U+0399}">>>>, <<"{U+1FA6}", <<"{U+1F6E}", "{U+0399}">>>>,
    <<"{U+1FA7}", <<"{U+1F6F}", "{U+0399}">>>>, <<"{U+1FA8}", <<"{U+1F68}", "{U+0399}">>>>,
    <<"{U+1FA9}", <<"{U+1F69}", "{U+0399}">>>>, <<"{U+1FAA}", <<"{U+1F6A}", "{U+0399}">>>>,
    <<"{U+1FAB}", <<"{U+1F6B}", "{U+0399}">>>>, <<"{U+1FAC}", <<"{U+1F6C}", "{U+0399}">>>>,
    <<"{U+1FAD}", <<"{U+1F6D}", "{U+0399}">>>>, <<"{U+1FAE}", <<"{U+1F6E}", "{U+0399}">>>>,
    <<"{U+1FAF}", <<"{U+1F6F}", "{U+0399}">>>>, <<"{U+1FB0}", <<"{U+1FB8}">>>>,
    <<"{U+1FB1}", <<"{U+1FB9}">>>>, <<"{U+1FB2}", <<"{U+1FBA}", "{U+0399}">>>>,
    <<"{U+1FB3}", <<"{U+0391}", "{U+0399}">>>>, <<"{U+1FB4}", <<"{U+0386}", "{U+0399}">>>>,
    <<"{U+1FB6}", <<"{U+0391}", "{U+0342}">>>>,
    <<"{U+1FB7}", <<"{U+0391}", "{U+0342}", "{U+0399}">>>>,
    <<"{U+1FBC}", <<"{U+0391}", "{U+0399}">>>>, <<"{U+1FBE}", <<"{U+0399}">>>>,
    <<"{U+1FC2}", <<"{U+1FCA}", "{U+0399}">>>>, <<"{U+1FC3}", <<"{U+0397}", "{U+0399}">>>>,
    <<"{U+1FC4}", <<"{U+0389}", "{U+0399}">>>>, <<"{U+1FC6}", <<"{U+0397}", "{U+0342}">>>>,
    <<"{U+1FC7}", <<"{U+0397}", "{U+0342}", "{U+0399}">>>>,
    <<"{U+1FCC}", <<"{U+0397}", "{U+0399}">>>>, <<"{U+1FD0}", <<"{U+1FD8}">>>>,
    <<"{U+1FD1}", <<"{U+1FD9}">>>>, <<"{U+1FD2}", <<"{U+0399}", "{U+0308}", "{U+0300}">>>>,
    <<"{U+1FD3}", <<"{U+0399}", "{U+0308}", "{U+0301}">>>>,
    <<"{U+1FD6}", <<"{U+0399}", "{U+0342}">>>>,
    <<"{U+1FD7}", <<"{U+0399}", "{U+0308}", "{U+0342}">>>>, <<"{U+1FE0}", <<"{U+1FE8}">>>>,
    <<"{U+1FE1}", <<"{U+1FE9}">>>>, <<"{U+1FE2}", <<"{U+03A5}", "{U+0308}", "{U+0300}">>>>,
    <<"{U+1FE3}", <<"{U+03A5}", "{U+0308}", "{U+0301}">>>>,
    <<"{U+1FE4}", <<"{U+03A1}", "{U+0313}">>>>, <<"{U+1FE5}", <<"{U+1FEC}">>>>,
    <<"{U+1FE6}", <<"{U+03A5}", "{U+0342}">>>>,
    <<"{U+1FE7}", <<"{U+03A5}", "{U+0308}", "{U+0342}">>>>,
    <<"{U+1FF2}", <<"{U+1FFA}", "{U+0399}">>>>, <<"{U+1FF3}", <<"{U+03A9}", "{U+0399}">>>>,
    <<"{U+1FF4}", <<"{U+038F}", "{U+0399}">>>>, <<"{U+1FF6}", <<"{U+03A9}", "{U+0342}">>>>,
    <<"{U+1FF7}", <<"{U+03A9}", "{U+0342}", "{U+0399}">>>>,
    <<"{U+1FFC}", <<"{U+03A9}", "{U+0399}">>>>, <<"{U+214E}", <<"{U+2132}">>>>,
    <<"{U+2170}", <<"{U+2160}">>>>, <<"{U+2171}", <<"{U+2161}">>>>, <<"{U+2172}", <<"{U+2162}">>>>,
    <<"{U+2173}", <<"{U+2163}">>>>, <<"{U+2174}", <<"{U+2164}">>>>, <<"{U+2175}", <<"{U+2165}">>>>,
    <<"{U+2176}", <<"{U+2166}">>>>, <<"{U+2177}", <<"{U+2167}">>>>, <<"{U+2178}", <<"{U+2168}">>>>,
    <<"{U+2179}", <<"{U+2169}">>>>, <<"{U+217A}", <<"{U+216A}">>>>, <<"{U+217B}", <<"{U+216B}">>>>,
    <<"{U+217C}", <<"{U+216C}">>>>, <<"{U+217D}", <<"{U+216D}">>>>, <<"{U+217E}", <<"{U+216E}">>>>,
    <<"{U+217F}", <<"{U+216F}">>>>, <<"{U+2184}", <<"{U+2183}">>>>, <<"{U+24D0}", <<"{U+24B6}">>>>,
    <<"{U+24D1}", <<"{U+24B7}">>>>, <<"{U+24D2}", <<"{U+24B8}">>>>, <<"{U+24D3}", <<"{U+24B9}">>>>,
    <<"{U+24D4}", <<"{U+24BA}">>>>, <<"{U+24D5}", <<"{U+24BB}">>>>, <<"{U+24D6}", <<"{U+24BC}">>>>,
    <<"{U+24D7}", <<"{U+24BD}">>>>, <<"{U+24D8}", <<"{U+24BE}">>>>, <<"{U+24D9}", <<"{U+24BF}">>>>,
    <<"{U+24DA}", <<"{U+24C0}">>>>, <<"{U+24DB}", <<"{U+24C1}">>>>, <<"{U+24DC}", <<"{U+24C2}">>>>,
    <<"{U+24DD}", <<"{U+24C3}">>>>, <<"{U+24DE}", <<"{U+24C4}">>>>, <<"{U+24DF}", <<"{U+24C5}">>>>,
    <<"{U+24E0}", <<"{U+24C6}">>>>, <<"{U+24E1}", <<"{U+24C7}">>>>, <<"{U+24E2}", <<"{U+24C8}">>>>,
    <<"{U+24E3}", <<"{U+24C9}">>>>, <<"{U+24E4}", <<"{U+24CA}">>>>, <<"{U+24E5}", <<"{U+24CB}">>>>,
    <<"{U+24E6}", <<"{U+24CC}">>>>, <<"{U+24E7}", <<"{U+24CD}">>>>, <<"{U+24E8}", <<"{U+24CE}">>>>,
    <<"{U+24E9}", <<"{U+24CF}">>>>, <<"{U+2C30}", <<"{U+2C00}">>>>, <<"{U+2C31}", <<"{U+2C01}">>>>,
    <<"{U+2C32}", <<"{U+2C02}">>>>, <<"{U+2C33}", <<"{U+2C03}">>>>, <<"{U+2C34}", <<"{U+2C04}">>>>,
    <<"{U+2C35}", <<"{U+2C05}">>>>, <<"{U+2C36}", <<"{U+2C06}">>>>, <<"{U+2C37}", <<"{U+2C07}">>>>,
    <<"{U+2C38}", <<"{U+2C08}">>>>, <<"{U+2C39}", <<"{U+2C09}">>>>, <<"{U+2C3A}", <<"{U+2C0A}">>>>,
    <<"{U+2C3B}", <<"{U+2C0B}">>>>, <<"{U+2C3C}", <<"{U+2C0C}">>>>, <<"{U+2C3D}", <<"{U+2C0D}">>>>,
    <<"{U+2C3E}", <<"{U+2C0E}">>>>, <<"{U+2C3F}", <<"{U+2C0F}">>>>, <<"{U+2C40}", <<"{U+2C10}">>>>,
    <<"{U+2C41}", <<"{U+2C11}">>>>, <<"{U+2C42}", <<"{U+2C12}">>>>, <<"{U+2C43}", <<"{U+2C13}">>>>,
    <<"{U+2C44}", <<"{U+2C14}">>>>, <<"{U+2C45}", <<"{U+2C15}">>>>, <<"{U+2C46}", <<"{U+2C16}">>>>,
    <<"{U+2C47}", <<"{U+2C17}">>>>, <<"{U+2C48}", <<"{U+2C18}">>>>, <<"{U+2C49}", <<"{U+2C19}">>>>,
    <<"{U+2C4A}", <<"{U+2C1A}">>>>, <<"{U+2C4B}", <<"{U+2C1B}">>>>, <<"{U+2C4C}", <<"{U+2C1C}">>>>,
    <<"{U+2C4D}", <<"{U+2C1D}">>>>, <<"{U+2C4E}", <<"{U+2C1E}">>>>, <<"{U+2C4F}", <<"{U+2C1F}">>>>,
    <<"{U+2C50}", <<"{U+2C20}">>>>, <<"{U+2C51}", <<"{U+2C21}">>>>, <<"{U+2C52}", <<"{U+2C22}">>>>,
    <<"{U+2C53}", <<"{U+2C23}">>>>, <<"{U+2C54}", <<"{U+2C24}">>>>, <<"{U+2C55}", <<"{U+2C25}">>>>,
    <<"{U+2C56}", <<"{U+2C26}">>>>, <<"{U+2C57}", <<"{U+2C27}">>>>, <<"{U+2C58}", <<"{U+2C28}">>>>,
    <<"{U+2C59}", <<"{U+2C29}">>>>, <<"{U+2C5A}", <<"{U+2C2A}">>>>, <<"{U+2C5B}", <<"{U+2C2B}">>>>,
    <<"{U+2C5C}", <<"{U+2C2C}">>>>, <<"{U+2C5D}", <<"{U+2C2D}">>>>, <<"{U+2C5E}", <<"{U+2C2E}">>>>,
    <<"{U+2C5F}", <<"{U+2C2F}">>>>, <<"{U+2C61}", <<"{U+2C60}">>>>, <<"{U+2C65}", <<"{U+023A}">>>>,
    <<"{U+2C66}", <<"{U+023E}">>>>, <<"{U+2C68}", <<"{U+2C67}">>>>, <<"{U+2C6A}", <<"{U+2C69}">>>>,
    <<"{U+2C6C}", <<"{U+2C6B}">>>>, <<"{U+2C73}", <<"{U+2C72}">>>>, <<"{U+2C76}", <<"{U+2C75}">>>>,
    <<"{U+2C81}", <<"{U+2C80}">>>>, <<"{U+2C83}", <<"{U+2C82}">>>>, <<"{U+2C85}", <<"{U+2C84}">>>>,
    <<"{U+2C87}", <<"{U+2C86}">>>>, <<"{U+2C89}", <<"{U+2C88}">>>>, <<"{U+2C8B}", <<"{U+2C8A}">>>>,
    <<"{U+2C8D}", <<"{U+2C8C}">>>>, <<"{U+2C8F}", <<"{U+2C8E}">>>>, <<"{U+2C91}", <<"{U+2C90}">>>>,
    <<"{U+2C93}", <<"{U+2C92}">>>>, <<"{U+2C95}", <<"{U+2C94}">>>>, <<"{U+2C97}", <<"{U+2C96}">>>>,
    <<"{U+2C99}", <<"{U+2C98}">>>>, <<"{U+2C9B}", <<"{U+2C9A}">>>>, <<"{U+2C9D}", <<"{U+2C9C}">>>>,
    <<"{U+2C9F}", <<"{U+2C9E}">>>>, <<"{U+2CA1}", <<"{U+2CA0}">>>>, <<"{U+2CA3}", <<"{U+2CA2}">>>>,
    <<"{U+2CA5}", <<"{U+2CA4}">>>>, <<"{U+2CA7}", <<"{U+2CA6}">>>>, <<"{U+2CA9}", <<"{U+2CA8}">>>>,
    <<"{U+2CAB}", <<"{U+2CAA}">>>>, <<"{U+2CAD}", <<"{U+2CAC}">>>>, <<"{U+2CAF}", <<"{U+2CAE}">>>>,
    <<"{U+2CB1}", <<"{U+2CB0}">>>>, <<"{U+2CB3}", <<"{U+2CB2}">>>>, <<"{U+2CB5}", <<"{U+2CB4}">>>>,
    <<"{U+2CB7}", <<"{U+2CB6}">>>>, <<"{U+2CB9}", <<"{U+2CB8}">>>>, <<"{U+2CBB}", <<"{U+2CBA}">>>>,
    <<"{U+2CBD}", <<"{U+2CBC}">>>>, <<"{U+2CBF}", <<"{U+2CBE}">>>>, <<"{U+2CC1}", <<"{U+2CC0}">>>>,
    <<"{U+2CC3}", <<"{U+2CC2}">>>>, <<"{U+2CC5}", <<"{U+2CC4}">>>>, <<"{U+2CC7}", <<"{U+2CC6}">>>>,
    <<"{U+2CC9}", <<"{U+2CC8}">>>>, <<"{U+2CCB}", <<"{U+2CCA}">>>>, <<"{U+2CCD}", <<"{U+2CCC}">>>>,
    <<"{U+2CCF}", <<"{U+2CCE}">>>>, <<"{U+2CD1}", <<"{U+2CD0}">>>>, <<"{U+2CD3}", <<"{U+2CD2}">>>>,
    <<"{U+2CD5}", <<"{U+2CD4}">>>>, <<"{U+2CD7}", <<"{U+2CD6}">>>>, <<"{U+2CD9}", <<"{U+2CD8}">>>>,
    <<"{U+2CDB}", <<"{U+2CDA}">>>>, <<"{U+2CDD}", <<"{U+2CDC}">>>>, <<"{U+2CDF}", <<"{U+2CDE}">>>>,
    <<"{U+2CE1}", <<"{U+2CE0}">>>>, <<"{U+2CE3}", <<"{U+2CE2}">>>>, <<"{U+2CEC}", <<"{U+2CEB}">>>>,
    <<"{U+2CEE}", <<"{U+2CED}">>>>, <<"{U+2CF3}", <<"{U+2CF2}">>>>, <<"{U+2D00}", <<"{U+10A0}">>>>,
    <<"{U+2D01}", <<"{U+10A1}">>>>, <<"{U+2D02}", <<"{U+10A2}">>>>, <<"{U+2D03}", <<"{U+10A3}">>>>,
    <<"{U+2D04}", <<"{U+10A4}">>>>, <<"{U+2D05}", <<"{U+10A5}">>>>, <<"{U+2D06}", <<"{U+10A6}">>>>,
    <<"{U+2D07}", <<"{U+10A7}">>>>, <<"{U+2D08}", <<"{U+10A8}">>>>, <<"{U+2D09}", <<"{U+10A9}">>>>,
    <<"{U+2D0A}", <<"{U+10AA}">>>>, <<"{U+2D0B}", <<"{U+10AB}">>>>, <<"{U+2D0C}", <<"{U+10AC}">>>>,
    <<"{U+2D0D}", <<"{U+10AD}">>>>, <<"{U+2D0E}", <<"{U+10AE}">>>>, <<"{U+2D0F}", <<"{U+10AF}">>>>,
    <<"{U+2D10}", <<"{U+10B0}">>>>, <<"{U+2D11}", <<"{U+10B1}">>>>, <<"{U+2D12}", <<"{U+10B2}">>>>,
    <<"{U+2D13}", <<"{U+10B3}">>>>, <<"{U+2D14}", <<"{U+10B4}">>>>, <<"{U+2D15}", <<"{U+10B5}">>>>,
    <<"{U+2D16}", <<"{U+10B6}">>>>, <<"{U+2D17}", <<"{U+10B7}">>>>, <<"{U+2D18}", <<"{U+10B8}">>>>,
    <<"{U+2D19}", <<"{U+10B9}">>>>, <<"{U+2D1A}", <<"{U+10BA}">>>>, <<"{U+2D1B}", <<"{U+10BB}">>>>,
    <<"{U+2D1C}", <<"{U+10BC}">>>>, <<"{U+2D1D}", <<"{U+10BD}">>>>, <<"{U+2D1E}", <<"{U+10BE}">>>>,
    <<"{U+2D1F}", <<"{U+10BF}">>>>, <<"{U+2D20}", <<"{U+10C0}">>>>, <<"{U+2D21}", <<"{U+10C1}">>>>,
    <<"{U+2D22}", <<"{U+10C2}">>>>, <<"{U+2D23}", <<"{U+10C3}">>>>, <<"{U+2D24}", <<"{U+10C4}">>>>,
    <<"{U+2D25}", <<"{U+10C5}">>>>, <<"{U+2D27}", <<"{U+10C7}">>>>, <<"{U+2D2D}", <<"{U+10CD}">>>>,
    <<"{U+A641}", <<"{U+A640}">>>>, <<"{U+A643}", <<"{U+A642}">>>>, <<"{U+A645}", <<"{U+A644}">>>>,
    <<"{U+A647}", <<"{U+A646}">>>>, <<"{U+A649}", <<"{U+A648}">>>>, <<"{U+A64B}", <<"{U+A64A}">>>>,
    <<"{U+A64D}", <<"{U+A64C}">>>>, <<"{U+A64F}", <<"{U+A64E}">>>>, <<"{U+A651}", <<"{U+A650}">>>>,
    <<"{U+A653}", <<"{U+A652}">>>>, <<"{U+A655}", <<"{U+A654}">>>>, <<"{U+A657}", <<"{U+A656}">>>>,
    <<"{U+A659}", <<"{U+A658}">>>>, <<"{U+A65B}", <<"{U+A65A}">>>>, <<"{U+A65D}", <<"{U+A65C}">>>>,
    <<"{U+A65F}", <<"{U+A65E}">>>>, <<"{U+A661}", <<"{U+A660}">>>>, <<"{U+A663}", <<"{U+A662}">>>>,
    <<"{U+A665}", <<"{U+A664}">>>>, <<"{U+A667}", <<"{U+A666}">>>>, <<"{U+A669}", <<"{U+A668}">>>>,
    <<"{U+A66B}", <<"{U+A66A}">>>>, <<"{U+A66D}", <<"{U+A66C}">>>>, <<"{U+A681}", <<"{U+A680}">>>>,
    <<"{U+A683}", <<"{U+A682}">>>>, <<"{U+A685}", <<"{U+A684}">>>>, <<"{U+A687}", <<"{U+A686}">>>>,
    <<"{U+A689}", <<"{U+A688}">>>>, <<"{U+A68B}", <<"{U+A68A}">>>>, <<"{U+A68D}", <<"{U+A68C}">>>>,
    <<"{U+A68F}", <<"{U+A68E}">>>>, <<"{U+A691}", <<"{U+A690}">>>>, <<"{U+A693}", <<"{U+A692}">>>>,
    <<"{U+A695}", <<"{U+A694}">>>>, <<"{U+A697}", <<"{U+A696}">>>>, <<"{U+A699}", <<"{U+A698}">>>>,
    <<"{U+A69B}", <<"{U+A69A}">>>>, <<"{U+A723}", <<"{U+A722}">>>>, <<"{U+A725}", <<"{U+A724}">>>>,
    <<"{U+A727}", <<"{U+A726}">>>>, <<"{U+A729}", <<"{U+A728}">>>>, <<"{U+A72B}", <<"{U+A72A}">>>>,
    <<"{U+A72D}", <<"{U+A72C}">>>>, <<"{U+A72F}", <<"{U+A72E}">>>>, <<"{U+A733}", <<"{U+A732}">>>>,
    <<"{U+A735}", <<"{U+A734}">>>>, <<"{U+A737}", <<"{U+A736}">>>>, <<"{U+A739}", <<"{U+A738}">>>>,
    <<"{U+A73B}", <<"{U+A73A}">>>>, <<"{U+A73D}", <<"{U+A73C}">>>>, <<"{U+A73F}", <<"{U+A73E}">>>>,
    <<"{U+A741}", <<"{U+A740}">>>>, <<"{U+A743}", <<"{U+A742}">>>>, <<"{U+A745}", <<"{U+A744}">>>>,
    <<"{U+A747}", <<"{U+A746}">>>>, <<"{U+A749}", <<"{U+A748}">>>>, <<"{U+A74B}", <<"{U+A74A}">>>>,
    <<"{U+A74D}", <<"{U+A74C}">>>>, <<"{U+A74F}", <<"{U+A74E}">>>>, <<"{U+A751}", <<"{U+A750}">>>>,
    <<"{U+A753}", <<"{U+A752}">>>>, <<"{U+A755}", <<"{U+A754}">>>>, <<"{U+A757}", <<"{U+A756}">>>>,
    <<"{U+A759}", <<"{U+A758}">>>>, <<"{U+A75B}", <<"{U+A75A}">>>>, <<"{U+A75D}", <<"{U+A75C}">>>>,
    <<"{U+A75F}", <<"{U+A75E}">>>>, <<"{U+A761}", <<"{U+A760}">>>>, <<"{U+A763}", <<"{U+A762}">>>>,
    <<"{U+A765}", <<"{U+A764}">>>>, <<"{U+A767}", <<"{U+A766}">>>>, <<"{U+A769}", <<"{U+A768}">>>>,
    <<"{U+A76B}", <<"{U+A76A}">>>>, <<"{U+A76D}", <<"{U+A76C}">>>>, <<"{U+A76F}", <<"{U+A76E}">>>>,
    <<"{U+A77A}", <<"{U+A779}">>>>, <<"{U+A77C}", <<"{U+A77B}">>>>, <<"{U+A77F}", <<"{U+A77E}">>>>,
    <<"{U+A781}", <<"{U+A780}">>>>, <<"{U+A783}", <<"{U+A782}">>>>, <<"{U+A785}", <<"{U+A784}">>>>,
    <<"{U+A787}", <<"{U+A786}">>>>, <<"{U+A78C}", <<"{U+A78B}">>>>, <<"{U+A791}", <<"{U+A790}">>>>,
    <<"{U+A793}", <<"{U+A792}">>>>, <<"{U+A794}", <<"{U+A7C4}">>>>, <<"{U+A797}", <<"{U+A796}">>>>,
    <<"{U+A799}", <<"{U+A798}">>>>, <<"{U+A79B}", <<"{U+A79A}">>>>, <<"{U+A79D}", <<"{U+A79C}">>>>,
    <<"{U+A79F}", <<"{U+A79E}">>>>, <<"{U+A7A1}", <<"{U+A7A0}">>>>, <<"{U+A7A3}", <<"{U+A7A2}">>>>,
    <<"{U+A7A5}", <<"{U+A7A4}">>>>, <<"{U+A7A7}", <<"{U+A7A6}">>>>, <<"{U+A7A9}", <<"{U+A7A8}">>>>,
    <<"{U+A7B5}", <<"{U+A7B4}">>>>, <<"{U+A7B7}", <<"{U+A7B6}">>>>, <<"{U+A7B9}", <<"{U+A7B8}">>>>,
    <<"{U+A7BB}", <<"{U+A7BA}">>>>, <<"{U+A7BD}", <<"{U+A7BC}">>>>, <<"{U+A7BF}", <<"{U+A7BE}">>>>,
    <<"{U+A7C1}", <<"{U+A7C0}">>>>, <<"{U+A7C3}", <<"{U+A7C2}">>>>, <<"{U+A7C8}", <<"{U+A7C7}">>>>,
    <<"{U+A7CA}", <<"{U+A7C9}">>>>, <<"{U+A7D1}", <<"{U+A7D0}">>>>, <<"{U+A7D7}", <<"{U+A7D6}">>>>,
    <<"{U+A7D9}", <<"{U+A7D8}">>>>, <<"{U+A7F6}", <<"{U+A7F5}">>>>, <<"{U+AB53}", <<"{U+A7B3}">>>>,
    <<"{U+AB70}", <<"{U+13A0}">>>>, <<"{U+AB71}", <<"{U+13A1}">>>>, <<"{U+AB72}", <<"{U+13A2}">>>>,
    <<"{U+AB73}", <<"{U+13A3}">>>>, <<"{U+AB74}", <<"{U+13A4}">>>>, <<"{U+AB75}", <<"{U+13A5}">>>>,
    <<"{U+AB76}", <<"{U+13A6}">>>>, <<"{U+AB77}", <<"{U+13A7}">>>>, <<"{U+AB78}", <<"{U+13A8}">>>>,
    <<"{U+AB79}", <<"{U+13A9}">>>>, <<"{U+AB7A}", <<"{U+13AA}">>>>, <<"{U+AB7B}", <<"{U+13AB}">>>>,
    <<"{U+AB7C}", <<"{U+13AC}">>>>, <<"{U+AB7D}", <<"{U+13AD}">>>>, <<"{U+AB7E}", <<"{U+13AE}">>>>,
    <<"{U+AB7F}", <<"{U+13AF}">>>>, <<"{U+AB80}", <<"{U+13B0}">>>>, <<"{U+AB81}", <<"{U+13B1}">>>>,
    <<"{U+AB82}", <<"{U+13B2}">>>>, <<"{U+AB83}", <<"{U+13B3}">>>>, <<"{U+AB84}", <<"{U+13B4}">>>>,
    <<"{U+AB85}", <<"{U+13B5}">>>>, <<"{U+AB86}", <<"{U+13B6}">>>>, <<"{U+AB87}", <<"{U+13B7}">>>>,
    <<"{U+AB88}", <<"{U+13B8}">>>>, <<"{U+AB89}", <<"{U+13B9}">>>>, <<"{U+AB8A}", <<"{U+13BA}">>>>,
    <<"{U+AB8B}", <<"{U+13BB}">>>>, <<"{U+AB8C}", <<"{U+13BC}">>>>, <<"{U+AB8D}", <<"{U+13BD}">>>>,
    <<"{U+AB8E}", <<"{U+13BE}">>>>, <<"{U+AB8F}", <<"{U+13BF}">>>>, <<"{U+AB90}", <<"{U+13C0}">>>>,
    <<"{U+AB91}", <<"{U+13C1}">>>>, <<"{U+AB92}", <<"{U+13C2}">>>>, <<"{U+AB93}", <<"{U+13C3}">>>>,
    <<"{U+AB94}", <<"{U+13C4}">>>>, <<"{U+AB95}", <<"{U+13C5}">>>>, <<"{U+AB96}", <<"{U+13C6}">>>>,
    <<"{U+AB97}", <<"{U+13C7}">>>>, <<"{U+AB98}", <<"{U+13C8}">>>>, <<"{U+AB99}", <<"{U+13C9}">>>>,
    <<"{U+AB9A}", <<"{U+13CA}">>>>, <<"{U+AB9B}", <<"{U+13CB}">>>>, <<"{U+AB9C}", <<"{U+13CC}">>>>,
    <<"{U+AB9D}", <<"{U+13CD}">>>>, <<"{U+AB9E}", <<"{U+13CE}">>>>, <<"{U+AB9F}", <<"{U+13CF}">>>>,
    <<"{U+ABA0}", <<"{U+13D0}">>>>, <<"{U+ABA1}", <<"{U+13D1}">>>>, <<"{U+ABA2}", <<"{U+13D2}">>>>,
    <<"{U+ABA3}", <<"{U+13D3}">>>>, <<"{U+ABA4}", <<"{U+13D4}">>>>, <<"{U+ABA5}", <<"{U+13D5}">>>>,
    <<"{U+ABA6}", <<"{U+13D6}">>>>, <<"{U+ABA7}", <<"{U+13D7}">>>>, <<"{U+ABA8}", <<"{U+13D8}">>>>,
    <<"{U+ABA9}", <<"{U+13D9}">>>>, <<"{U+ABAA}", <<"{U+13DA}">>>>, <<"{U+ABAB}", <<"{U+13DB}">>>>,
    <<"{U+ABAC}", <<"{U+13DC}">>>>, <<"{U+ABAD}", <<"{U+13DD}">>>>, <<"{U+ABAE}", <<"{U+13DE}">>>>,
    <<"{U+ABAF}", <<"{U+13DF}">>>>, <<"{U+ABB0}", <<"{U+13E0}">>>>, <<"{U+ABB1}", <<"{U+13E1}">>>>,
    <<"{U+ABB2}", <<"{U+13E2}">>>>, <<"{U+ABB3}", <<"{U+13E3}">>>>, <<"{U+ABB4}", <<"{U+13E4}">>>>,
    <<"{U+ABB5}", <<"{U+13E5}">>>>, <<"{U+ABB6}", <<"{U+13E6}">>>>, <<"{U+ABB7}", <<"{U+13E7}">>>>,
    <<"{U+ABB8}", <<"{U+13E8}">>>>, <<"{U+ABB9}", <<"{U+13E9}">>>>, <<"{U+ABBA}", <<"{U+13EA}">>>>,
    <<"{U+ABBB}", <<"{U+13EB}">>>>, <<"{U+ABBC}", <<"{U+13EC}">>>>, <<"{U+ABBD}", <<"{U+13ED}">>>>,
    <<"{U+ABBE}", <<"{U+13EE}">>>>, <<"{U+ABBF}", <<"{U+13EF}">>>>, <<"{U+FB00}", <<"F", "F">>>>,
    <<"{U+FB01}", <<"F", "I">>>>, <<"{U+FB02}", <<"F", "L">>>>, <<"{U+FB03}", <<"F", "F", "I">>>>,
    <<"{U+FB04}", <<"F", "F", "L">>>>, <<"{U+FB05}", <<"S", "T">>>>, <<"{U+FB06}", <<"S", "T">>>>,
    <<"{U+FB13}", <<"{U+0544}", "{U+0546}">>>>, <<"{U+FB14}", <<"{U+0544}", "{U+0535}">>>>,
    <<"{U+FB15}", <<"{U+0544}", "{U+053B}">>>>, <<"{U+FB16}", <<"{U+054E}", "{U+0546}">>>>,
    <<"{U+FB17}", <<"{U+0544}", "{U+053D}">>>>, <<"{U+FF41}", <<"{U+FF21}">>>>,
    <<"{U+FF42}", <<"{U+FF22}">>>>, <<"{U+FF43}", <<"{U+FF23}">>>>, <<"{U+FF44}", <<"{U+FF24}">>>>,
    <<"{U+FF45}", <<"{U+FF25}">>>>, <<"{U+FF46}", <<"{U+FF26}">>>>, <<"{U+FF47}", <<"{U+FF27}">>>>,
    <<"{U+FF48}", <<"{U+FF28}">>>>, <<"{U+FF49}", <<"{U+FF29}">>>>, <<"{U+FF4A}", <<"{U+FF2A}">>>>,
    <<"{U+FF4B}", <<"{U+FF2B}">>>>, <<"{U+FF4C}", <<"{U+FF2C}">>>>, <<"{U+FF4D}", <<"{U+FF2D}">>>>,
    <<"{U+FF4E}", <<"{U+FF2E}">>>>, <<"{U+FF4F}", <<"{U+FF2F}">>>>, <<"{U+FF50}", <<"{U+FF30}">>>>,
    <<"{U+FF51}", <<"{U+FF31}">>>>, <<"{U+FF52}", <<"{U+FF32}">>>>, <<"{U+FF53}", <<"{U+FF33}">>>>,
    <<"{U+FF54}", <<"{U+FF34}">>>>, <<"{U+FF55}", <<"{U+FF35}">>>>, <<"{U+FF56}", <<"{U+FF36}">>>>,
    <<"{U+FF57}", <<"{U+FF37}">>>>, <<"{U+FF58}", <<"{U+FF38}">>>>, <<"{U+FF59}", <<"{U+FF39}">>>>,
    <<"{U+FF5A}", <<"{U+FF3A}">>>>, <<"{U+10428}", <<"{U+10400}">>>>,
    <<"{U+10429}", <<"{U+10401}">>>>, <<"{U+1042A}", <<"{U+10402}">>>>,
    <<"{U+1042B}", <<"{U+10403}">>>>, <<"{U+1042C}", <<"{U+10404}">>>>,
    <<"{U+1042D}", <<"{U+10405}">>>>, <<"{U+1042E}", <<"{U+10406}">>>>,
    <<"{U+1042F}", <<"{U+10407}">>>>, <<"{U+10430}", <<"{U+10408}">>>>,
    <<"{U+10431}", <<"{U+10409}">>>>, <<"{U+10432}", <<"{U+1040A}">>>>,
    <<"{U+10433}", <<"{U+1040B}">>>>, <<"{U+10434}", <<"{U+1040C}">>>>,
    <<"{U+10435}", <<"{U+1040D}">>>>, <<"{U+10436}", <<"{U+1040E}">>>>,
    <<"{U+10437}", <<"{U+1040F}">>>>, <<"{U+10438}", <<"{U+10410}">>>>,
    <<"{U+10439}", <<"{U+10411}">>>>, <<"{U+1043A}", <<"{U+10412}">>>>,
    <<"{U+1043B}", <<"{U+10413}">>>>, <<"{U+1043C}", <<"{U+10414}">>>>,
    <<"{U+1043D}", <<"{U+10415}">>>>, <<"{U+1043E}", <<"{U+10416}">>>>,
    <<"{U+1043F}", <<"{U+10417}">>>>, <<"{U+10440}", <<"{U+10418}">>>>,
    <<"{U+10441}", <<"{U+10419}">>>>, <<"{U+10442}", <<"{U+1041A}">>>>,
    <<"{U+10443}", <<"{U+1041B}">>>>, <<"{U+10444}", <<"{U+1041C}">>>>,
    <<"{U+10445}", <<"{U+1041D}">>>>, <<"{U+10446}", <<"{U+1041E}">>>>,
    <<"{U+10447}", <<"{U+1041F}">>>>, <<"{U+10448}", <<"{U+10420}">>>>,
    <<"{U+10449}", <<"{U+10421}">>>>, <<"{U+1044A}", <<"{U+10422}">>>>,
    <<"{U+1044B}", <<"{U+10423}">>>>, <<"{U+1044C}", <<"{U+10424}">>>>,
    <<"{U+1044D}", <<"{U+10425}">>>>, <<"{U+1044E}", <<"{U+10426}">>>>,
    <<"{U+1044F}", <<"{U+10427}">>>>, <<"{U+104D8}", <<"{U+104B0}">>>>,
    <<"{U+104D9}", <<"{U+104B1}">>>>, <<"{U+104DA}", <<"{U+104B2}">>>>,
    <<"{U+104DB}", <<"{U+104B3}">>>>, <<"{U+104DC}", <<"{U+104B4}">>>>,
    <<"{U+104DD}", <<"{U+104B5}">>>>, <<"{U+104DE}", <<"{U+104B6}">>>>,
    <<"{U+104DF}", <<"{U+104B7}">>>>, <<"{U+104E0}", <<"{U+104B8}">>>>,
    <<"{U+104E1}", <<"{U+104B9}">>>>, <<"{U+104E2}", <<"{U+104BA}">>>>,
    <<"{U+104E3}", <<"{U+104BB}">>>>, <<"{U+104E4}", <<"{U+104BC}">>>>,
    <<"{U+104E5}", <<"{U+104BD}">>>>, <<"{U+104E6}", <<"{U+104BE}">>>>,
    <<"{U+104E7}", <<"{U+104BF}">>>>, <<"{U+104E8}", <<"{U+104C0}">>>>,
    <<"{U+104E9}", <<"{U+104C1}">>>>, <<"{U+104EA}", <<"{U+104C2}">>>>,
    <<"{U+104EB}", <<"{U+104C3}">>>>, <<"{U+104EC}", <<"{U+104C4}">>>>,
    <<"{U+104ED}", <<"{U+104C5}">>>>, <<"{U+104EE}", <<"{U+104C6}">>>>,
    <<"{U+104EF}", <<"{U+104C7}">>>>, <<"{U+104F0}", <<"{U+104C8}">>>>,
    <<"{U+104F1}", <<"{U+104C9}">>>>, <<"{U+104F2}", <<"{U+104CA}">>>>,
    <<"{U+104F3}", <<"{U+104CB}">>>>, <<"{U+104F4}", <<"{U+104CC}">>>>,
    <<"{U+104F5}", <<"{U+104CD}">>>>, <<"{U+104F6}", <<"{U+104CE}">>>>,
    <<"{U+104F7}", <<"{U+104CF}">>>>, <<"{U+104F8}", <<"{U+104D0}">>>>,
    <<"{U+104F9}", <<"{U+104D1}">>>>, <<"{U+104FA}", <<"{U+104D2}">>>>,
    <<"{U+104FB}", <<"{U+104D3}">>>>, <<"{U+10597}", <<"{U+10570}">>>>,
    <<"{U+10598}", <<"{U+10571}">>>>, <<"{U+10599}", <<"{U+10572}">>>>,
    <<"{U+1059A}", <<"{U+10573}">>>>, <<"{U+1059B}", <<"{U+10574}">>>>,
    <<"{U+1059C}", <<"{U+10575}">>>>, <<"{U+1059D}", <<"{U+10576}">>>>,
    <<"{U+1059E}", <<"{U+10577}">>>>, <<"{U+1059F}", <<"{U+10578}">>>>,
    <<"{U+105A0}", <<"{U+10579}">>>>, <<"{U+105A1}", <<"{U+1057A}">>>>,
    <<"{U+105A3}", <<"{U+1057C}">>>>, <<"{U+105A4}", <<"{U+1057D}">>>>,
    <<"{U+105A5}", <<"{U+1057E}">>>>, <<"{U+105A6}", <<"{U+1057F}">>>>,
    <<"{U+105A7}", <<"{U+10580}">>>>, <<"{U+105A8}", <<"{U+10581}">>>>,
    <<"{U+105A9}", <<"{U+10582}">>>>, <<"{U+105AA}", <<"{U+10583}">>>>,
    <<"{U+105AB}", <<"{U+10584}">>>>, <<"{U+105AC}", <<"{U+10585}">>>>,
    <<"{U+105AD}", <<"{U+10586}">>>>, <<"{U+105AE}", <<"{U+10587}">>>>,
    <<"{U+105AF}", <<"{U+10588}">>>>, <<"{U+105B0}", <<"{U+10589}">>>>,
    <<"{U+105B1}", <<"{U+1058A}">>>>, <<"{U+105B3}", <<"{U+1058C}">>>>,
    <<"{U+105B4}", <<"{U+1058D}">>>>, <<"{U+105B5}", <<"{U+1058E}">>>>,
    <<"{U+105B6}", <<"{U+1058F}">>>>, <<"{U+105B7}", <<"{U+10590}">>>>,
    <<"{U+105B8}", <<"{U+10591}">>>>, <<"{U+105B9}", <<"{U+10592}">>>>,
    <<"{U+105BB}", <<"{U+10594}">>>>, <<"{U+105BC}", <<"{U+10595}">>>>,
    <<"{U+10CC0}", <<"{U+10C80}">>>>, <<"{U+10CC1}", <<"{U+10C81}">>>>,
    <<"{U+10CC2}", <<"{U+10C82}">>>>, <<"{U+10CC3}", <<"{U+10C83}">>>>,
    <<"{U+10CC4}", <<"{U+10C84}">>>>, <<"{U+10CC5}", <<"{U+10C85}">>>>,
    <<"{U+10CC6}", <<"{U+10C86}">>>>, <<"{U+10CC7}", <<"{U+10C87}">>>>,
    <<"{U+10CC8}", <<"{U+10C88}">>>>, <<"{U+10CC9}", <<"{U+10C89}">>>>,
    <<"{U+10CCA}", <<"{U+10C8A}">>>>, <<"{U+10CCB}", <<"{U+10C8B}">>>>,
    <<"{U+10CCC}", <<"{U+10C8C}">>>>, <<"{U+10CCD}", <<"{U+10C8D}">>>>,
    <<"{U+10CCE}", <<"{U+10C8E}">>>>, <<"{U+10CCF}", <<"{U+10C8F}">>>>,
    <<"{U+10CD0}", <<"{U+10C90}">>>>, <<"{U+10CD1}", <<"{U+10C91}">>>>,
    <<"{U+10CD2}", <<"{U+10C92}">>>>, <<"{U+10CD3}", <<"{U+10C93}">>>>,
    <<"{U+10CD4}", <<"{U+10C94}">>>>, <<"{U+10CD5}", <<"{U+10C95}">>>>,
    <<"{U+10CD6}", <<"{U+10C96}">>>>, <<"{U+10CD7}", <<"{U+10C97}">>>>,
    <<"{U+10CD8}", <<"{U+10C98}">>>>, <<"{U+10CD9}", <<"{U+10C99}">>>>,
    <<"{U+10CDA}", <<"{U+10C9A}">>>>, <<"{U+10CDB}", <<"{U+10C9B}">>>>,
    <<"{U+10CDC}", <<"{U+10C9C}">>>>, <<"{U+10CDD}", <<"{U+10C9D}">>>>,
    <<"{U+10CDE}", <<"{U+10C9E}">>>>, <<"{U+10CDF}", <<"{U+10C9F}">>>>,
    <<"{U+10CE0}", <<"{U+10CA0}">>>>, <<"{U+10CE1}", <<"{U+10CA1}">>>>,
    <<"{U+10CE2}", <<"{U+10CA2}">>>>, <<"{U+10CE3}", <<"{U+10CA3}">>>>,
    <<"{U+10CE4}", <<"{U+10CA4}">>>>, <<"{U+10CE5}", <<"{U+10CA5}">>>>,
    <<"{U+10CE6}", <<"{U+10CA6}">>>>, <<"{U+10CE7}", <<"{U+10CA7}">>>>,
    <<"{U+10CE8}", <<"{U+10CA8}">>>>, <<"{U+10CE9}", <<"{U+10CA9}">>>>,
    <<"{U+10CEA}", <<"{U+10CAA}">>>>, <<"{U+10CEB}", <<"{U+10CAB}">>>>,
    <<"{U+10CEC}", <<"{U+10CAC}">>>>, <<"{U+10CED}", <<"{U+10CAD}">>>>,
    <<"{U+10CEE}", <<"{U+10CAE}">>>>, <<"{U+10CEF}", <<"{U+10CAF}">>>>,
    <<"{U+10CF0}", <<"{U+10CB0}">>>>, <<"{U+10CF1}", <<"{U+10CB1}">>>>,
    <<"{U+10CF2}", <<"{U+10CB2}">>>>, <<"{U+118C0}", <<"{U+118A0}">>>>,
    <<"{U+118C1}", <<"{U+118A1}">>>>, <<"{U+118C2}", <<"{U+118A2}">>>>,
    <<"{U+118C3}", <<"{U+118A3}">>>>, <<"{U+118C4}", <<"{U+118A4}">>>>,
    <<"{U+118C5}", <<"{U+118A5}">>>>, <<"{U+118C6}", <<"{U+118A6}">>>>,
    <<"{U+118C7}", <<"{U+118A7}">>>>, <<"{U+118C8}", <<"{U+118A8}">>>>,
    <<"{U+118C9}", <<"{U+118A9}">>>>, <<"{U+118CA}", <<"{U+118AA}">>>>,
    <<"{U+118CB}", <<"{U+118AB}">>>>, <<"{U+118CC}", <<"{U+118AC}">>>>,
    <<"{U+118CD}", <<"{U+118AD}">>>>, <<"{U+118CE}", <<"{U+118AE}">>>>,
    <<"{U+118CF}", <<"{U+118AF}">>>>, <<"{U+118D0}", <<"{U+118B0}">>>>,
    <<"{U+118D1}", <<"{U+118B1}">>>>, <<"{U+118D2}", <<"{U+118B2}">>>>,
    <<"{U+118D3}", <<"{U+118B3}">>>>, <<"{U+118D4}", <<"{U+118B4}">>>>,
    <<"{U+118D5}", <<"{U+118B5}">>>>, <<"{U+118D6}", <<"{U+118B6}">>>>,
    <<"{U+118D7}", <<"{U+118B7}">>>>, <<"{U+118D8}", <<"{U+118B8}">>>>,
    <<"{U+118D9}", <<"{U+118B9}">>>>, <<"{U+118DA}", <<"{U+118BA}">>>>,
    <<"{U+118DB}", <<"{U+118BB}">>>>, <<"{U+118DC}", <<"{U+118BC}">>>>,
    <<"{U+118DD}", <<"{U+118BD}">>>>, <<"{U+118DE}", <<"{U+118BE}">>>>,
    <<"{U+118DF}", <<"{U+118BF}">>>>, <<"{U+16E60}", <<"{U+16E40}">>>>,
    <<"{U+16E61}", <<"{U+16E41}">>>>, <<"{U+16E62}", <<"{U+16E42}">>>>,
    <<"{U+16E63}", <<"{U+16E43}">>>>, <<"{U+16E64}", <<"{U+16E44}">>>>,
    <<"{U+16E65}", <<"{U+16E45}">>>>, <<"{U+16E66}", <<"{U+16E46}">>>>,
    <<"{U+16E67}", <<"{U+16E47}">>>>, <<"{U+16E68}", <<"{U+16E48}">>>>,
    <<"{U+16E69}", <<"{U+16E49}">>>>, <<"{U+16E6A}", <<"{U+16E4A}">>>>,
    <<"{U+16E6B}", <<"{U+16E4B}">>>>, <<"{U+16E6C}", <<"{U+16E4C}">>>>,
    <<"{U+16E6D}", <<"{U+16E4D}">>>>, <<"{U+16E6E}", <<"{U+16E4E}">>>>,
    <<"{U+16E6F}", <<"{U+16E4F}">>>>, <<"{U+16E70}", <<"{U+16E50}">>>>,
    <<"{U+16E71}", <<"{U+16E51}">>>>, <<"{U+16E72}", <<"{U+16E52}">>>>,
    <<"{U+16E73}", <<"{U+16E53}">>>>, <<"{U+16E74}", <<"{U+16E54}">>>>,
    <<"{U+16E75}", <<"{U+16E55}">>>>, <<"{U+16E76}", <<"{U+16E56}">>>>,
    <<"{U+16E77}", <<"{U+16E57}">>>>, <<"{U+16E78}", <<"{U+16E58}">>>>,
    <<"{U+16E79}", <<"{U+16E59}">>>>, <<"{U+16E7A}", <<"{U+16E5A}">>>>,
    <<"{U+16E7B}", <<"{U+16E5B}">>>>, <<"{U+16E7C}", <<"{U+16E5C}">>>>,
    <<"{U+16E7D}", <<"{U+16E5D}">>>>, <<"{U+16E7E}", <<"{U+16E5E}">>>>,
    <<"{U+16E7F}", <<"{U+16E5F}">>>>, <<"{U+1E922}", <<"{U+1E900}">>>>,
    <<"{U+1E923}", <<"{U+1E901}">>>>, <<"{U+1E924}", <<"{U+1E902}">>>>,
    <<"{U+1E925}", <<"{U+1E903}">>>>, <<"{U+1E926}", <<"{U+1E904}">>>>,
    <<"{U+1E927}", <<"{U+1E905}">>>>, <<"{U+1E928}", <<"{U+1E906}">>>>,
    <<"{U+1E929}", <<"{U+1E907}">>>>, <<"{U+1E92A}", <<"{U+1E908}">>>>,
    <<"{U+1E92B}", <<"{U+1E909}">>>>, <<"{U+1E92C}", <<"{U+1E90A}">>>>,
    <<"{U+1E92D}", <<"{U+1E90B}">>>>, <<"{U+1E92E}", <<"{U+1E90C}">>>>,
    <<"{U+1E92F}", <<"{U+1E90D}">>>>, <<"{U+1E930}", <<"{U+1E90E}">>>>,
    <<"{U+1E931}", <<"{U+1E90F}">>>>, <<"{U+1E932}", <<"{U+1E910}">>>>,
    <<"{U+1E933}", <<"{U+1E911}">>>>, <<"{U+1E934}", <<"{U+1E912}">>>>,
    <<"{U+1E935}", <<"{U+1E913}">>>>, <<"{U+1E936}", <<"{U+1E914}">>>>,
    <<"{U+1E937}", <<"{U+1E915}">>>>, <<"{U+1E938}", <<"{U+1E916}">>>>,
    <<"{U+1E939}", <<"{U+1E917}">>>>, <<"{U+1E93A}", <<"{U+1E918}">>>>,
    <<"{U+1E93B}", <<"{U+1E919}">>>>, <<"{U+1E93C}", <<"{U+1E91A}">>>>,
    <<"{U+1E93D}", <<"{U+1E91B}">>>>, <<"{U+1E93E}", <<"{U+1E91C}">>>>,
    <<"{U+1E93F}", <<"{U+1E91D}">>>>, <<"{U+1E940}", <<"{U+1E91E}">>>>,
    <<"{U+1E941}", <<"{U+1E91F}">>>>, <<"{U+1E942}", <<"{U+1E920}">>>>,
    <<"{U+1E943}", <<"{U+1E921}">>>>
>>


\* UpperPairs as a function of the character.
UpperTable ==
    [c \in { UpperPairs[i][1] : i \in 1..Len(UpperPairs) } |->
        UpperPairs[CHOOSE i \in 1..Len(UpperPairs) : UpperPairs[i][1] = c][2]]

\* Characters of ASCII that str.upper() leaves as they are, among them all
\* that a well-formed answer is written with.
AsciiKept ==
    { "A", "B", "C", "D", "E", "F", "G", "H", "I", "J", "K", "L", "M",
      "N", "O", "P", "Q", "R", "S", "T", "U", "V", "W", "X", "Y", "Z",
      "0", "1", "2", "3", "4", "5", "6", "7", "8", "9", "-", ",", " " }

\* str.upper() on one character, as the characters it gives: a..z become
\* their capitals, the characters of UpperPairs what the table says, every
\* other character (capitals, digits, "-", ",", " ") stays.
UpperChar(c) ==
    IF c \in AsciiKept THEN << c >>
    ELSE IF \E i \in 1..26 : LowerLetters[i] = c
         THEN << UpperLetters[CHOOSE i \in 1..26 : LowerLetters[i] = c] >>
    ELSE IF c \in DOMAIN UpperTable THEN UpperTable[c]
    ELSE << c >>

RECURSIVE UpperStr(_)
UpperStr(s) == IF s = <<>> THEN <<>> ELSE UpperChar(Head(s)) \o UpperStr(Tail(s))

\* str.replace(" ", "")
RemoveSpaces(s) == SelectSeq(s, LAMBDA c : c # " ")

\* str.split(sep): the pieces between the separators, empty pieces included.
RECURSIVE SplitOn(_, _)
SplitOn(s, sep) ==
    IF \A i \in 1..Len(s) : s[i] # sep THEN << s >>
    ELSE LET k == CHOOSE i \in 1..Len(s) : s[i] = sep /\ \A j \in 1..(i - 1) : s[j] # sep
         IN  << SubSeq(s, 1, k - 1) >> \o SplitOn(SubSeq(s, k + 1, Len(s)), sep)

\* str.split(sep, 1): at most one split, at the first separator.
SplitFirst(s, sep) ==
    IF \A i \in 1..Len(s) : s[i] # sep THEN << s >>
    ELSE LET k == CHOOSE i \in 1..Len(s) : s[i] = sep /\ \A j \in 1..(i - 1) : s[j] # sep
         IN  << SubSeq(s, 1, k - 1), SubSeq(s, k + 1, Len(s)) >>

\* chr(ord('A') + i), as a string
Chr(i) == << UpperLetters[i + 1] >>

\* str(n) for n >= 1
RECURSIVE Str(_)
Str(n) == IF n < 10 THEN << DigitChars[n + 1] >>
          ELSE Str(n \div 10) \o << DigitChars[(n % 10) + 1] >>

\* The try-block's parsing loop of on_text_for_match: the list `parsed`, or the
\* ValueError of a part that does not unpack or names no letter or number.
RECURSIVE ParseParts_SkipsBad(_, _, _)
ParseParts_SkipsBad(parts, letters, nums) ==
    IF parts = <<>> THEN [err |-> FALSE, parsed |-> <<>>]
    ELSE LET ab == SplitFirst(Head(parts), "-")
             rest == ParseParts_SkipsBad(Tail(parts), letters, nums)
         IN  IF Len(ab) # 2 THEN rest
             ELSE IF ab[1] \notin Range(letters) \/ ab[2] \notin Range(nums) THEN rest
             ELSE [err |-> FALSE,
                   parsed |-> << <<PyIndex(letters, ab[1]), PyIndex(nums, ab[2])>> >>
                              \o rest.parsed]
RECURSIVE ParseParts(_, _, _)
ParseParts(parts, letters, nums) ==
    IF parts = <<>> THEN [err |-> FALSE, parsed |-> <<>>]
    ELSE LET ab == SplitFirst(Head(parts), "-")
         IN  IF Len(ab) # 2 THEN [err |-> TRUE, parsed |-> <<>>]
             ELSE IF ab[1] \notin Range(letters) \/ ab[2] \notin Range(nums)
                  THEN [err |-> TRUE, parsed |-> <<>>]
             ELSE LET rest == ParseParts(Tail(parts), letters, nums)
                  IN  IF rest.err THEN rest
                      ELSE [err |-> FALSE,
                            parsed |-> << <<PyIndex(letters, ab[1]), PyIndex(nums, ab[2])>> >>
                                       \o rest.parsed]

ParseMatchText(text, q, shown_right) ==
    LET letters == [i \in 1..Len(q.match_left) |-> Chr(i - 1)]
        nums    == [i \in 1..Len(shown_right) |-> Str(i)]
        t       == RemoveSpaces(UpperStr(text))
        parts   == SelectSeq(SplitOn(t, ","), LAMBDA x : x # <<>>)
    IN  ParseParts(parts, letters, nums)

\* shown_to_orig and user_pairs of on_text_for_match.
UserPairs(parsed, q, shown_right) ==
    LET shown_to_orig == [i \in 0..(Len(shown_right) - 1) |->
                             PyIndex(q.match_right, shown_right[i + 1])]
    IN  { <<parsed[k][1], shown_to_orig[parsed[k][2]]>> : k \in 1..Len(parsed) }

\* ------------------------------------------------------------ database
\* edubot/db.py, for the one user the model follows: the rows of `sessions`
\* (the row id is its position), users.points, user_topics.points and
\* users.approved.
db_start_session(d, topic, total, timer_minutes) ==
    [d EXCEPT !.sessions = Append(@, [topic |-> topic, total |-> total,
                                      timer_minutes |-> timer_minutes,
                                      finished |-> FALSE,
                                      score |-> None, details |-> None])]

db_finish_session(d, session_id, score, details) ==
    [d EXCEPT !.sessions[session_id] =
        [@ EXCEPT !.finished = TRUE, !.score = Some(score), !.details = Some(details)]]

\* add_points runs two statements, each committed on its own: the UPDATE of
\* users.points, then (if topic:) the upsert into user_topics.
db_add_points_users(d, pts) == [d EXCEPT !.points = @ + pts]
db_add_points_topic(d, pts, topic) ==
    IF topic = "" THEN d ELSE [d EXCEPT !.topic_points[topic] = @ + pts]
db_add_points(d, pts, topic) ==
    db_add_points_topic(db_add_points_users(d, pts), pts, topic)

db_set_approved(d, val) == [d EXCEPT !.approved = val]

\* ------------------------------------------------------------- handlers
\* A world: context.user_data["quiz"], context.user_data["await"], the
\* database and the log of persistence calls that ran to completion; and what
\* the handler run did: raised (an exception left the handler), failed (a
\* persistence call raised), out (the last message sent, or "raised"), scored
\* (answers evaluated).
World(q, a, d, c) ==
    [quiz |-> q, aw |-> a, db |-> d, calls |-> c,
     raised |-> FALSE, failed |-> FALSE, out |-> "none", scored |-> 0]

\* Which persistence call of a handler run fails, if any: "add_points" when
\* add_points raises before its first statement took effect,
\* "add_points_topic" when its second statement raises.
Failures == {"none", "ensure_user", "start_session", "finish_session",
             "add_points", "add_points_topic"}

\* finish_quiz
finish_quiz(w, fail) ==
    IF w.quiz = None THEN w
    ELSE LET st == w.quiz[1]
             score == st.score
         IN  IF fail = "finish_session"
             THEN [w EXCEPT !.raised = TRUE, !.failed = TRUE, !.out = "raised"]
             ELSE LET w1 == [w EXCEPT
                        !.db = db_finish_session(@, st.session_id, score, st.details),
                        !.calls = Append(@, [fn |-> "finish_session",
                                             session_id |-> st.session_id,
                                             score |-> score])]
                  IN  IF fail = "add_points"
                      THEN [w1 EXCEPT !.raised = TRUE, !.failed = TRUE, !.out = "raised"]
                      ELSE IF fail = "add_points_topic"
                      THEN [w1 EXCEPT !.db = db_add_points_users(@, score),
                                      !.raised = TRUE, !.failed = TRUE, !.out = "raised"]
                      ELSE [w1 EXCEPT
                              !.db = db_add_points(@, score, st.topic),
                              !.calls = Append(@, [fn |-> "add_points",
                                                   session_id |-> st.session_id,
                                                   score |-> score]),
                              !.quiz = None,
                              !.out = "finished"]

\* send_next_question; `right` is the order random.shuffle leaves the copy of
\* match_right in when the question rendered is a match question.
RECURSIVE send_next_question(_, _, _, _)
send_next_question(w, t, right, fail) ==
    IF w.quiz = None THEN w
    ELSE LET st == w.quiz[1]
             idx == st.current
         IN  IF idx >= Len(st.questions) THEN finish_quiz(w, fail)
             ELSE IF st.deadline # None /\ st.deadline[1] - t <= 0
                  THEN finish_quiz(w, fail)
             ELSE LET q == st.questions[idx + 1]
                  IN  CASE q.type = "single" ->
                             [w EXCEPT !.out = "question",
                                       !.aw = Some([kind |-> "single", q |-> q,
                                                    chosen |-> {}, right |-> <<>>])]
                        [] q.type = "multi" ->
                             [w EXCEPT !.out = "question",
                                       !.aw = Some([kind |-> "multi", q |-> q,
                                                    chosen |-> {}, right |-> <<>>])]
                        [] q.type = "match" ->
                             [w EXCEPT !.out = "question",
                                       !.aw = Some([kind |-> "match", q |-> q,
                                                    chosen |-> {}, right |-> right])]
                        [] OTHER ->
                             send_next_question(
                                 [w EXCEPT !.quiz = Some([st EXCEPT !.current = @ + 1])],
                                 t, right, fail)

\* One evaluated answer: score, transcript entry, cursor.
Scored_ExtendsDeadline(st, entry) ==
    [st EXCEPT !.score = IF entry.ok THEN @ + 1 ELSE @,
               !.details = Append(@, entry),
               !.current = @ + 1,
               !.deadline = IF @ = None THEN @ ELSE Some(@[1] + 1)]
Scored(st, entry) ==
    [st EXCEPT !.score = IF entry.ok THEN @ + 1 ELSE @,
               !.details = Append(@, entry),
               !.current = @ + 1]

\* The option press of a multi question: "if opt in chosen: chosen.remove(opt)
\* else: chosen.add(opt)".
Toggle_AddOnly(chosen, opt) == chosen \cup {opt}
Toggle(chosen, opt) == IF opt \in chosen THEN chosen \ {opt} ELSE chosen \cup {opt}

\* on_button; data = [prefix, payload] is callback_data "<prefix>::<payload>",
\* which the dispatcher passes on when prefix is "ans" or "multi".
on_button(w, data, t, right, fail) ==
    IF w.aw = None \/ w.quiz = None THEN w
    ELSE LET a == w.aw[1]
             st == w.quiz[1]
             q == a.q
         IN  CASE a.kind = "single" ->
                    LET chosen == data.payload
                        correct == q.answer
                        ok == (chosen = correct)
                        entry == [id |-> q.id, type |-> "single", chosen |-> chosen,
                                  correct |-> correct, ok |-> ok]
                    IN  send_next_question(
                            [w EXCEPT !.quiz = Some(Scored(st, entry)), !.scored = @ + 1],
                            t, right, fail)
               [] a.kind = "multi" ->
                    IF data.payload = "confirm"
                    THEN LET correct_set == q.answers
                             ok == (a.chosen = correct_set)
                             entry == [id |-> q.id, type |-> "multi", chosen |-> a.chosen,
                                       correct |-> correct_set, ok |-> ok]
                         IN  send_next_question(
                                 [w EXCEPT !.quiz = Some(Scored(st, entry)),
                                           !.scored = @ + 1],
                                 t, right, fail)
                    ELSE LET opt == data.payload
                         IN  [w EXCEPT !.out = "toggle",
                                       !.aw = Some([a EXCEPT !.chosen = Toggle(@, opt)])]
               [] OTHER -> w

\* on_text_for_match
on_text_for_match(w, text, t, right, fail) ==
    IF w.aw = None \/ w.quiz = None THEN w
    ELSE IF w.aw[1].kind # "match" THEN w
    ELSE LET a == w.aw[1]
             st == w.quiz[1]
             q == a.q
             shown_right == a.right
             p == ParseMatchText(text, q, shown_right)
         IN  IF p.err THEN [w EXCEPT !.out = "parse_error"]
             ELSE LET correct_pairs == q.pairs
                      user_pairs == UserPairs(p.parsed, q, shown_right)
                      ok == (user_pairs = correct_pairs)
                      entry == [id |-> q.id, type |-> "match", chosen_pairs |-> user_pairs,
                                correct_pairs |-> correct_pairs, ok |-> ok]
                      w1 == send_next_question(
                                [w EXCEPT !.quiz = Some(Scored(st, entry)), !.scored = @ + 1],
                                t, right, fail)
                  IN  \* except Exception: whatever was raised is answered with the
                      \* parse-error reply and goes no further
                      IF w1.raised THEN [w1 EXCEPT !.raised = FALSE, !.out = "parse_error"]
                      ELSE w1

\* start_quiz
start_quiz_AlwaysStarts(w, questions, topic, minutes, t, right, fail) ==
    LET d1 == db_start_session(w.db, topic, Len(questions), minutes)
        st == [topic |-> topic, questions |-> questions, current |-> 0,
               score |-> 0, session_id |-> Len(d1.sessions), details |-> <<>>,
               deadline |-> None]
    IN  send_next_question([w EXCEPT !.db = d1, !.quiz = Some(st)], t, right, fail)
start_quiz(w, questions, topic, minutes, t, right, fail) ==
    IF questions = <<>> THEN [w EXCEPT !.out = "no_questions"]
    ELSE IF fail = "start_session"
         THEN [w EXCEPT !.raised = TRUE, !.failed = TRUE, !.out = "raised"]
    ELSE LET d1 == db_start_session(w.db, topic, Len(questions), minutes)
             session_id == Len(d1.sessions)
             deadline == IF minutes # 0 /\ minutes > 0 THEN Some(t + minutes) ELSE None
             st == [topic |-> topic, questions |-> questions, current |-> 0,
                    score |-> 0, session_id |-> session_id, details |-> <<>>,
                    deadline |-> deadline]
         IN  send_next_question([w EXCEPT !.db = d1, !.quiz = Some(st)], t, right, fail)

\* The topic test_cmd starts a quiz on for the parsed arguments, if it gets
\* that far: args.topic is args.get("topic"), None when absent.
test_cmd_topic(args) ==
    LET topics == DOMAIN list_topics
    IN  IF topics = {} THEN None
        ELSE IF args.topic = None \/ args.topic = Some("")
             THEN IF Cardinality(topics) = 1 THEN Some(CHOOSE k \in topics : TRUE)
                  ELSE None
        ELSE IF args.topic[1] \notin topics THEN None
        ELSE args.topic

\* test_cmd; `questions` is what select_questions returns inside start_quiz.
test_cmd(w, args, questions, t, right, fail) ==
    IF fail = "ensure_user"
    THEN [w EXCEPT !.raised = TRUE, !.failed = TRUE, !.out = "raised"]
    ELSE IF w.db.approved # 1 THEN [w EXCEPT !.out = "denied"]
    ELSE IF test_cmd_topic(args) = None THEN [w EXCEPT !.out = "no_topic"]
    ELSE start_quiz(w, questions, test_cmd_topic(args)[1], args.minutes, t, right, fail)

\* choose_topic_cb; callback_data is "choose_topic::<topic>".
choose_topic_cb(w, topic, questions, t, right, fail) ==
    start_quiz(w, questions, topic, 0, t, right, fail)

\* approve_cmd / ban_cmd, sent by an administrator for the user's tg_id.
\* help_cmd sends the help text and touches no state.
help_cmd(w) == [w EXCEPT !.out = "help"]
approve_cmd(w) == [w EXCEPT !.db = db_set_approved(@, 1)]
ban_cmd(w) == [w EXCEPT !.db = db_set_approved(@, 0)]

\* ------------------------------------------------ handlers, await by await
\* A handler is a coroutine: between two awaits of a Telegram call its code
\* runs without interruption, and at an await the event loop may run the
\* handler of another update of the same user. A stretch is the outcome of
\* the code between two awaits: the world it leaves, the await it stops at
\* and the await record it holds to store after that await. The await is
\* "last" when nothing but the handler's return follows it (a reply that ends
\* the handler), and "done" stands for no await: the handler returned or
\* raised in this stretch.
Stretch(w, pc, next) == [w |-> w, pc |-> pc, next |-> next]

\* The handler changes nothing after this stretch.
Returns(x) == x.pc \in {"done", "last"}

\* start_quiz up to "await send(start message)": the selection, the session
\* row and the session state; send_next_question follows the await.
start_quiz_stretch(w, questions, topic, minutes, t, fail) ==
    IF questions = <<>> THEN Stretch([w EXCEPT !.out = "no_questions"], "last", None)
    ELSE IF fail = "start_session"
         THEN Stretch([w EXCEPT !.raised = TRUE, !.failed = TRUE, !.out = "raised"],
                      "done", None)
    ELSE LET d1 == db_start_session(w.db, topic, Len(questions), minutes)
             deadline == IF minutes # 0 /\ minutes > 0 THEN Some(t + minutes) ELSE None
             st == [topic |-> topic, questions |-> questions, current |-> 0,
                    score |-> 0, session_id |-> Len(d1.sessions), details |-> <<>>,
                    deadline |-> deadline]
         IN  Stretch([w EXCEPT !.db = d1, !.quiz = Some(st), !.out = "started"],
                     "starting", None)

\* test_cmd up to its first await: a reply that ends it, or start_quiz's
\* start message.
test_cmd_stretch(w, args, questions, t, fail) ==
    IF fail = "ensure_user"
    THEN Stretch([w EXCEPT !.raised = TRUE, !.failed = TRUE, !.out = "raised"],
                 "done", None)
    ELSE IF w.db.approved # 1 THEN Stretch([w EXCEPT !.out = "denied"], "last", None)
    ELSE IF test_cmd_topic(args) = None
         THEN Stretch([w EXCEPT !.out = "no_topic"], "last", None)
    ELSE start_quiz_stretch(w, questions, test_cmd_topic(args)[1], args.minutes, t, fail)

\* on_button from "await query.answer()" to its next await: reply_text after
\* an evaluation (st["current"] += 1 comes after it), edit_reply_markup after
\* a toggle (the set in the await record is changed in place before it,
\* user_data["await"] is stored again after it).
on_button_evaluate(w, data) ==
    IF w.aw = None \/ w.quiz = None THEN Stretch(w, "done", None)
    ELSE LET a == w.aw[1]
             st == w.quiz[1]
             q == a.q
             Evaluated(entry) ==
                 Stretch([w EXCEPT !.quiz = Some([Scored(st, entry) EXCEPT
                                                    !.current = st.current]),
                                   !.scored = @ + 1, !.out = "evaluated"],
                         "replying", None)
         IN  CASE a.kind = "single" ->
                    Evaluated([id |-> q.id, type |-> "single", chosen |-> data.payload,
                               correct |-> q.answer, ok |-> (data.payload = q.answer)])
               [] a.kind = "multi" /\ data.payload = "confirm" ->
                    Evaluated([id |-> q.id, type |-> "multi", chosen |-> a.chosen,
                               correct |-> q.answers, ok |-> (a.chosen = q.answers)])
               [] a.kind = "multi" /\ data.payload # "confirm" ->
                    LET a1 == [a EXCEPT !.chosen = Toggle(@, data.payload)]
                    IN  Stretch([w EXCEPT !.aw = Some(a1), !.out = "toggle"],
                                "marking", Some(a1))
               [] OTHER -> Stretch(w, "done", None)

\* on_text_for_match from its start to its first await: the parse-error reply,
\* or reply_text after the evaluation (st["current"] += 1 comes after it).
on_text_for_match_evaluate(w, text) ==
    IF w.aw = None \/ w.quiz = None THEN Stretch(w, "done", None)
    ELSE IF w.aw[1].kind # "match" THEN Stretch(w, "done", None)
    ELSE LET a == w.aw[1]
             st == w.quiz[1]
             q == a.q
             p == ParseMatchText(text, q, a.right)
         IN  IF p.err THEN Stretch([w EXCEPT !.out = "parse_error"], "last", None)
             ELSE LET user_pairs == UserPairs(p.parsed, q, a.right)
                      entry == [id |-> q.id, type |-> "match",
                                chosen_pairs |-> user_pairs, correct_pairs |-> q.pairs,
                                ok |-> (user_pairs = q.pairs)]
                  IN  Stretch([w EXCEPT !.quiz = Some([Scored(st, entry) EXCEPT
                                                         !.current = st.current]),
                                        !.scored = @ + 1, !.out = "evaluated"],
                              "replying", None)

\* finish_quiz from its start to "await send(result)", its last statement,
\* to the persistence call that raised, or to its return when there is no
\* session state ("if not st: return").
finish_quiz_stretch(w, fail) ==
    LET w1 == finish_quiz(w, fail)
    IN  Stretch(w1, IF w.quiz = None \/ w1.raised THEN "done" ELSE "last", None)

\* send_next_question from its start to its first await or its return: the
\* finish is done at once, a single or multi question is sent before
\* user_data["await"] is stored, a match question after, and the notice of an
\* unknown type is sent before st["current"] += 1.
send_next_question_stretch(w, t, right, fail) ==
    IF w.quiz = None THEN Stretch(w, "done", None)
    ELSE LET st == w.quiz[1]
             idx == st.current
         IN  IF idx >= Len(st.questions) THEN finish_quiz_stretch(w, fail)
             ELSE IF st.deadline # None /\ st.deadline[1] - t <= 0
                  THEN finish_quiz_stretch(w, fail)
             ELSE LET q == st.questions[idx + 1]
                      rec(kind, r) == [kind |-> kind, q |-> q, chosen |-> {}, right |-> r]
                  IN  CASE q.type \in {"single", "multi"} ->
                             Stretch([w EXCEPT !.out = "question"], "sending",
                                     Some(rec(q.type, <<>>)))
                        [] q.type = "match" ->
                             Stretch([w EXCEPT !.out = "question",
                                               !.aw = Some(rec("match", right))],
                                     "last", None)
                        [] OTHER -> Stretch([w EXCEPT !.out = "skip"], "skipping", None)

\* The stretch after the feedback reply of an answer or after the notice of
\* an unknown type: st["current"] += 1 on the dict the handler holds, which is
\* user_data["quiz"] only while that still is the session sid, then
\* send_next_question on whatever user_data["quiz"] is now.
advance_stretch(w, sid, t, right, fail) ==
    LET w0 == IF w.quiz # None /\ w.quiz[1].session_id = sid
              THEN [w EXCEPT !.quiz = Some([w.quiz[1] EXCEPT !.current = @ + 1])]
              ELSE w
    IN  send_next_question_stretch(w0, t, right, fail)

\* The "except Exception" of on_text_for_match around a stretch: whatever was
\* raised is answered with the parse-error reply and goes no further.
swallowed(x) ==
    IF x.w.raised
    THEN Stretch([x.w EXCEPT !.raised = FALSE, !.out = "parse_error"], "last", None)
    ELSE x


\* ---------------------------------------------------------------- inputs
\* n= and time= of /test as int() parses them.
NValues == {-1, 0, 1, 2, 10}
MinutesValues == {-1, 0, 1}

\* callback_data the dispatcher hands to on_button (pattern ^(ans|multi)::).
ButtonData == [prefix : {"ans", "multi"}, payload : {"a", "b", "confirm"}]

\* Comma-separated pieces of a match answer as users type them.
Tokens ==
    { <<"A", "-", "1">>, <<"A", "-", "2">>, <<"B", "-", "1">>,
      <<"b", " ", "-", "2">>,       \* lower case and a space
      <<"A", "1">>,                 \* no separator
      <<"C", "-", "1">>,            \* unknown letter
      <<"A", "-", "3">>,            \* unknown number
      <<"{U+00DF}", "-", "1">> }    \* a letter that upper() makes "SS"

RECURSIVE JoinComma(_)
JoinComma(ts) ==
    IF ts = <<>> THEN <<>>
    ELSE IF Len(ts) = 1 THEN ts[1]
    ELSE ts[1] \o <<",">> \o JoinComma(Tail(ts))

TokenSeqs == UNION { [1..k -> Tokens] : k \in 0..MaxTokens }
MatchTexts == { JoinComma(ts) : ts \in TokenSeqs }

\* ------------------------------------------------------------ the system
world == World(quiz, aw, db, calls)

\* toggles counts the presses made on the options of the set object that
\* user_data["await"] holds, since that set was created by a render.
OptionPayloads == {"a", "b"}
NoToggles == [o \in OptionPayloads |-> 0]
TogglesSum == toggles["a"] + toggles["b"]

\* The updates api/index.py is processing at once: each webhook request awaits
\* tg_app.process_update, so every handler runs as a task of the one event
\* loop and gives way to the others at every await of a Telegram call. Of
\* request r: pc is the await its handler stands at, op the handler, sid the
\* session of the quiz dict it holds in `st`, next the await record it is
\* about to store. The requests
\* in flight fill the slots from 1 on, in the order of their arrival. A handler that
\* stands at edit_reply_markup holds the set it toggled: alias says that this
\* set is the one in user_data["await"], same that the other request holds
\* that very set too, presses the presses made on it.
Requests == {1, 2}
NoData == [prefix |-> "ans", payload |-> "a"]
Idle == [pc |-> "none", op |-> "none", next |-> None, sid |-> 0,
         alias |-> FALSE, same |-> FALSE, presses |-> NoToggles]
NoFlight == [r \in Requests |-> Idle]

\* The module state of api/index.py and the HTTP requests it is serving.
\* started is _started, tg_app whether tg_app is set, lock the request that
\* holds _lock (0: free), last_error whether last_error is set; builds counts
\* the calls of build_application and starts the runs of the start section
\* that reached "_started = True". Of request r: pc is the await it stands at,
\* kind its endpoint, valid whether its body parses as an update, waited
\* whether it had to wait for _lock, resp its response, processed whether
\* process_update was called for it, slot the slot of `flight` its handler
\* runs in (0: none, the handler has not begun or changes nothing any more).
IdleRequest == [pc |-> "idle", kind |-> "webhook", valid |-> TRUE,
                waited |-> FALSE, resp |-> "none", processed |-> FALSE, slot |-> 0]
\* As the import of api/index.py leaves it (lines 9-12).
AtImport == [started |-> FALSE, tg_app |-> FALSE, lock |-> 0, last_error |-> FALSE,
             builds |-> 0, starts |-> 0, req |-> [r \in Requests |-> IdleRequest]]
\* After the first request started the application: the state in which the
\* dispatcher hands updates to the handlers.
Running == [AtImport EXCEPT !.started = TRUE, !.tg_app = TRUE,
                            !.builds = 1, !.starts = 1]

Init ==
    /\ flight = NoFlight
    /\ srv = Running
    /\ quiz = None
    /\ aw = None
    /\ db = [sessions |-> <<>>, points |-> 0,
             topic_points |-> [k \in DOMAIN list_topics |-> 0], approved |-> 0]
    /\ calls = <<>>
    /\ now = 0
    /\ fails = 0
    /\ toggles = NoToggles
    /\ ev = [op |-> "init", out |-> "none"]

\* The orders random.shuffle can leave `right` in, in a stretch that ends in
\* x0 when the shuffle is left out.
RightsAfter(x0) ==
    IF x0.w.out = "question" /\ x0.pc = "last"
    THEN Shuffles(x0.w.aw[1].q.match_right)
    ELSE { <<>> }

\* The persistence calls that can fail in a stretch that takes world w to w0
\* when none fails, while fewer than `budget` calls have failed.
FailsAfter(w, w0, budget) ==
    {"none"}
    \cup (IF fails < budget /\ w0.out = "finished"
          THEN {"finish_session", "add_points", "add_points_topic"} ELSE {})
    \cup (IF fails < budget /\ Len(w0.db.sessions) > Len(w.db.sessions)
          THEN {"start_session"} ELSE {})

\* A handler without an await between its state changes ran to its end.
Ran(op, w1) ==
    /\ quiz' = w1.quiz
    /\ aw' = w1.aw
    /\ db' = w1.db
    /\ calls' = w1.calls
    /\ fails' = IF w1.failed THEN fails + 1 ELSE fails
    /\ ev' = [op |-> op, out |-> w1.out]
    /\ UNCHANGED <<now, flight, srv>>

Tick ==
    /\ now < MaxTime
    /\ now' = now + 1
    /\ ev' = [op |-> "tick", out |-> "none"]
    /\ UNCHANGED <<quiz, aw, db, calls, fails, toggles, flight, srv>>

\* An arriving update takes the lowest free request slot.
Free(r) ==
    /\ flight[r].pc = "none"
    /\ \A r2 \in Requests : r2 < r => flight[r2].pc # "none"

\* The slots after a request left: the requests still in flight move up.
Compact(f) ==
    IF f[1].pc = "none" /\ f[2].pc # "none" THEN [r \in Requests |-> f[3 - r]] ELSE f

\* The handler `op` of request r, called with callback_data `data`, ran the
\* stretch x. A match question puts a new record into user_data["await"]
\* (fresh); a toggle changes the set of the record in place, which every
\* handler holding that set sees. A handler that changes nothing any more
\* gives up its slot.
Moved(r, op, data, x) ==
    LET fresh == x.w.out = "question" /\ x.pc = "last"
        toggled == x.w.out = "toggle"
        pressed == IF toggled THEN [toggles EXCEPT ![data.payload] = @ + 1]
                   ELSE toggles
    IN  /\ toggled => TogglesSum < MaxToggles
        /\ quiz' = x.w.quiz
        /\ aw' = x.w.aw
        /\ db' = x.w.db
        /\ calls' = x.w.calls
        /\ fails' = IF x.w.failed THEN fails + 1 ELSE fails
        /\ toggles' = IF fresh THEN NoToggles ELSE pressed
        /\ ev' = [op |-> op, out |-> x.w.out]
        /\ flight' = Compact([r2 \in Requests |->
             IF r2 = r
             THEN IF Returns(x) THEN Idle
                  ELSE [flight[r] EXCEPT
                          !.pc = x.pc, !.op = op, !.next = x.next,
                          !.sid = IF x.w.quiz = None THEN 0 ELSE x.w.quiz[1].session_id,
                          !.alias = toggled,
                          !.same = toggled /\ \E r3 \in Requests \ {r} : flight[r3].alias,
                          !.presses = IF toggled THEN pressed ELSE NoToggles]
             ELSE IF fresh THEN [flight[r2] EXCEPT !.alias = FALSE]
             ELSE IF toggled /\ flight[r2].alias
                  THEN [flight[r2] EXCEPT !.next = x.next, !.presses = pressed,
                                          !.same = TRUE]
             ELSE flight[r2]])
        /\ UNCHANGED now

\* The same while the application is running: the module state of
\* api/index.py stays as it is.
Stepped(r, op, data, x) ==
    /\ Moved(r, op, data, x)
    /\ UNCHANGED srv

\* /test with arguments from argset arrives and runs to its first await; no
\* more than cap sessions are created.
TestCmd(argset, cap, budget) ==
    \E r \in Requests :
      /\ Free(r)
      /\ \E args \in argset :
          LET tp == test_cmd_topic(args)
          IN  \E questions \in (IF tp = None \/ db.approved # 1 THEN {<<>>}
                                ELSE select_questions(tp[1], args.n)) :
                LET x0 == test_cmd_stretch(world, args, questions, now, "none")
                IN  \E fail \in FailsAfter(world, x0.w, budget)
                                  \cup (IF fails < budget THEN {"ensure_user"} ELSE {}) :
                      LET x == test_cmd_stretch(world, args, questions, now, fail)
                      IN  /\ Len(x.w.db.sessions) <= cap
                          /\ Stepped(r, "test_cmd", NoData, x)

\* A press on a topic button arrives; choose_topic_cb awaits query.answer(),
\* which changes nothing, and runs start_quiz up to its start message.
ChooseTopicCb(topics, cap, budget) ==
    \E r \in Requests :
      /\ Free(r)
      /\ \E topic \in topics : \E questions \in select_questions(topic, 10) :
           LET x0 == start_quiz_stretch(world, questions, topic, 0, now, "none")
           IN  \E fail \in FailsAfter(world, x0.w, budget) :
                 LET x == start_quiz_stretch(world, questions, topic, 0, now, fail)
                 IN  /\ Len(x.w.db.sessions) <= cap
                     /\ Stepped(r, "choose_topic_cb", NoData, x)

\* A press on an option or confirm button arrives; on_button awaits
\* query.answer(), which changes nothing, and runs the evaluation or the
\* toggle up to its next await.
OnButton(presses) ==
    \E r \in Requests :
      /\ Free(r)
      /\ \E data \in presses :
           Stepped(r, "on_button", data, on_button_evaluate(world, data))

\* A text message arrives and on_text_for_match runs to its first await.
OnTextForMatch(texts, budget) ==
    \E r \in Requests :
      /\ Free(r)
      /\ \E text \in texts :
           Stepped(r, "on_text_for_match", NoData,
                   on_text_for_match_evaluate(world, text))

\* The handler resumes after the start message, after the feedback reply or
\* after the unknown-type notice, and runs to its next await or its end.
resumed(r, right, fail) ==
    LET x == IF flight[r].pc = "starting"
             THEN send_next_question_stretch(world, now, right, fail)
             ELSE advance_stretch(world, flight[r].sid, now, right, fail)
    IN  IF flight[r].op = "on_text_for_match" THEN swallowed(x) ELSE x

Resumes(r, budget) ==
    /\ flight[r].pc \in {"starting", "replying", "skipping"}
    /\ LET x0 == resumed(r, <<>>, "none")
       IN  \E right \in RightsAfter(x0), fail \in FailsAfter(world, x0.w, budget) :
              Stepped(r, flight[r].op, NoData, resumed(r, right, fail))

\* The handler resumes after the question was sent or the keyboard re-marked
\* and stores the await record it holds.
Stored(r) ==
    /\ flight[r].pc \in {"sending", "marking"}
    /\ aw' = flight[r].next
    /\ toggles' = flight[r].presses
    /\ flight' = Compact([r2 \in Requests |->
                    IF r2 = r THEN Idle
                    ELSE [flight[r2] EXCEPT
                            !.alias = flight[r].same /\ flight[r2].pc = "marking",
                            !.same = FALSE]])
    /\ ev' = [op |-> flight[r].op,
              out |-> IF flight[r].pc = "sending" THEN "asked" ELSE "marked"]
    /\ UNCHANGED <<quiz, db, calls, now, fails>>

Stores(r) ==
    /\ Stored(r)
    /\ UNCHANGED srv

ApproveCmd ==
    Ran("approve_cmd", approve_cmd(world)) /\ UNCHANGED toggles

BanCmd ==
    Ran("ban_cmd", ban_cmd(world)) /\ UNCHANGED toggles

\* Inputs of the specifications.
FewTexts == { JoinComma(<< <<"A", "-", "1">>, <<"B", "-", "1">> >>), <<"A", "1">> }

\* A quiz of one or of all three questions of topic T1 (a single, a multi and
\* an unknown-type question), answered with buttons, and what follows it;
\* every persistence call succeeds. T9 is no topic of the bank.
ButtonQuizArgs == [topic : {Some("T1"), Some("T9")}, n : {0, 1, 10}, minutes : {0}]

\* Every /test argument list the handler operators are evaluated on.
AllQuizArgs ==
    [topic : {Some("T1"), Some("T2"), Some("T3"), Some("T9")},
     n : NValues, minutes : MinutesValues]

Next ==
    \/ TestCmd(ButtonQuizArgs, 1, 0)
    \/ OnButton(ButtonData)
    \/ OnTextForMatch(FewTexts, 0)
    \/ ApproveCmd
    \/ \E r \in Requests : Resumes(r, 0)
    \/ \E r \in Requests : Stores(r)

Spec == Init /\ [][Next]_vars

\* A quiz with a time limit of one minute, answered with buttons or, for a
\* match question of topic T2, with a text, while the clock runs.
TimerQuizArgs ==
    [topic : {Some("T1")}, n : {1}, minutes : {-1, 0, 1}]
    \cup [topic : {Some("T3")}, n : {2}, minutes : {1}]
    \cup [topic : {Some("T2")}, n : {1}, minutes : {1}]

NextTimer ==
    \/ Tick
    \/ TestCmd(TimerQuizArgs, 1, 0)
    \/ OnButton(ButtonData)
    \/ OnTextForMatch(FewTexts, 0)
    \/ ApproveCmd
    \/ \E r \in Requests : Resumes(r, 0)
    \/ \E r \in Requests : Stores(r)

SpecTimer == Init /\ [][NextTimer]_vars

\* A quiz on topic T2 (match questions), answered with text messages; every
\* persistence call succeeds.
MatchQuizArgs == [topic : {Some("T2")}, n : {1, 2}, minutes : {0}]
StepTexts ==
    { JoinComma(<< <<"A", "-", "1">>, <<"B", "-", "2">> >>),
      JoinComma(<< <<"A", "-", "2">>, <<"B", "-", "1">> >>),
      JoinComma(<< <<"A", "-", "1">>, <<"A", "-", "2">> >>),
      <<"b", " ", "-", "2">>, <<"A", "1">>, <<"C", "-", "1">> }

NextMatch ==
    \/ TestCmd(MatchQuizArgs, 1, 0)
    \/ OnTextForMatch(StepTexts, 0)
    \/ ApproveCmd
    \/ \E r \in Requests : Resumes(r, 0)

SpecMatch == Init /\ [][NextMatch]_vars

\* One single-question quiz on either topic in which up to MaxFail persistence
\* calls raise.
FailQuizArgs == [topic : {Some("T1"), Some("T2")}, n : {1}, minutes : {0}]

NextFail ==
    \/ TestCmd(FailQuizArgs, 1, MaxFail)
    \/ OnButton(ButtonData)
    \/ OnTextForMatch(FewTexts, MaxFail)
    \/ ApproveCmd
    \/ \E r \in Requests : Resumes(r, MaxFail)
    \/ \E r \in Requests : Stores(r)

SpecFail == Init /\ [][NextFail]_vars

\* The gate: approve and ban commands between the user's /test commands,
\* topic-button presses and answers; up to two sessions.
GateQuizArgs == [topic : {None, Some("T3")}, n : {1}, minutes : {0}]

NextGate ==
    \/ TestCmd(GateQuizArgs, 2, 0)
    \/ ChooseTopicCb({"T3", NoTopicLabel}, 2, 0)
    \/ OnButton([prefix : {"ans"}, payload : {"a", "b"}])
    \/ ApproveCmd
    \/ BanCmd
    \/ \E r \in Requests : Resumes(r, 0)
    \/ \E r \in Requests : Stores(r)

SpecGate == Init /\ [][NextGate]_vars

\* Restarts: a second /test while the first session may still be active.
RestartQuizArgs == [topic : {Some("T3")}, n : {0, 2}, minutes : {0}]

NextRestart ==
    \/ TestCmd(RestartQuizArgs, 2, 0)
    \/ OnButton([prefix : {"ans"}, payload : {"a", "b"}])
    \/ ApproveCmd
    \/ \E r \in Requests : Resumes(r, 0)
    \/ \E r \in Requests : Stores(r)

SpecRestart == Init /\ [][NextRestart]_vars

\* Double taps: one quiz of one or two questions of topic T1 answered with
\* presses on the options of a single question.
ConcQuizArgs == [topic : {Some("T1")}, n : {1, 2}, minutes : {0}]

NextConc ==
    \/ ApproveCmd
    \/ TestCmd(ConcQuizArgs, 1, 0)
    \/ OnButton([prefix : {"ans"}, payload : {"a", "b"}])
    \/ \E r \in Requests : Resumes(r, 0)
    \/ \E r \in Requests : Stores(r)

SpecConc == Init /\ [][NextConc]_vars


\* ---------------------------------------------------------------- claims
Active == quiz # None
St == quiz[1]
Aw == aw[1]
Expired == Active /\ St.deadline # None /\ St.deadline[1] <= now

\* The transcript and score a handler run leaves for session sid in world w1:
\* the live session's, or what was persisted when the session is gone.
DetailsOf(w1, sid) ==
    IF w1.quiz # None THEN w1.quiz[1].details ELSE w1.db.sessions[sid].details[1]
ScoreOf(w1, sid) ==
    IF w1.quiz # None THEN w1.quiz[1].score ELSE w1.db.sessions[sid].score[1]
Last(s) == s[Len(s)]

Confirm == [prefix |-> "multi", payload |-> "confirm"]

\* C1: with the deadline passed, an answer (a press on a single question, the
\* confirm of a multi question, a well-formed match text) ends the session
\* without being evaluated: the persisted score and transcript are those the
\* session had before the late answer, and total is len(questions).
LateAnswerDropped(w1) ==
    /\ w1.quiz = None
    /\ w1.db.sessions[St.session_id].finished
    /\ w1.db.sessions[St.session_id].score = Some(St.score)
    /\ w1.db.sessions[St.session_id].details = Some(St.details)
    /\ w1.db.sessions[St.session_id].total = Len(St.questions)

C1_LateAnswerNotEvaluated ==
    (Expired /\ aw # None)
    => /\ \A data \in ButtonData :
            (Aw.kind = "single" \/ (Aw.kind = "multi" /\ data.payload = "confirm"))
            => LateAnswerDropped(on_button(world, data, now, <<>>, "none"))
       /\ \A text \in MatchTexts :
            LET w1 == on_text_for_match(world, text, now, <<>>, "none")
            IN  (Aw.kind = "match" /\ w1.out # "parse_error") => LateAnswerDropped(w1)

\* A piece of a match answer that has no "-" between one letter and one
\* number, or names a letter or a number the rendered question does not show.
BadToken(tok, nleft, nright) ==
    LET t == SelectSeq(tok, LAMBDA c : c # " ")
    IN  \/ Len(t) # 3
        \/ t[2] # "-"
        \/ ~ \E i \in 1..nleft : t[1] \in { <<"A", "B", "C">>[i], <<"a", "b", "c">>[i] }
        \/ ~ \E i \in 1..nright : t[3] = <<"1", "2", "3">>[i]

\* C2: a match text with a malformed token, an unknown letter or an unknown
\* number gets the parse-error reply and changes nothing: cursor, score,
\* transcript, the awaited question with its displayed order, and the database
\* are as before.
C2_ParseErrorKeepsState ==
    (Active /\ aw # None /\ Aw.kind = "match")
    => \A ts \in TokenSeqs :
          (\E i \in 1..Len(ts) :
               BadToken(ts[i], Len(Aw.q.match_left), Len(Aw.right)))
          => on_text_for_match(world, JoinComma(ts), now, <<>>, "none")
               = [world EXCEPT !.out = "parse_error"]

C2_Witness ==
    /\ Active /\ aw # None /\ Aw.kind = "match"
    /\ ev.op = "on_text_for_match" /\ ev.out = "parse_error"

\* The ways the displayed list `shown` can be the canonical match_right in
\* another order: position (0-based) -> canonical index (0-based).
Displays(q, shown) ==
    LET n == Len(shown)
    IN  { d \in [0..(n - 1) -> 0..(n - 1)] :
            /\ \A i, j \in 0..(n - 1) : d[i] = d[j] => i = j
            /\ \A i \in 0..(n - 1) : q.match_right[d[i] + 1] = shown[i + 1] }

RECURSIVE SetToSeq(_)
SetToSeq(S) ==
    IF S = {} THEN <<>>
    ELSE LET x == CHOOSE x \in S : TRUE IN <<x>> \o SetToSeq(S \ {x})

\* The answer that names, for each canonical pair (l, r), letter l and the
\* displayed position of canonical right entry r under display d.
CanonicalAnswer(q, d) ==
    LET Pos(r) == CHOOSE i \in DOMAIN d : d[i] = r
        Tok(p) == << <<"A", "B", "C">>[p[1] + 1], "-", <<"1", "2", "3">>[Pos(p[2]) + 1] >>
        ps == SetToSeq(q.pairs)
    IN  JoinComma([k \in 1..Len(ps) |-> Tok(ps[k])])

\* C3: whatever the displayed order of match_right, the answer that names the
\* canonical pairs by their displayed positions is evaluated as correct; and
\* an answer evaluated as correct translates to exactly the canonical pairs.
C3_MatchRoundTrip ==
    (Active /\ aw # None /\ Aw.kind = "match")
    => /\ \A d \in Displays(Aw.q, Aw.right) :
            LET w1 == on_text_for_match(world, CanonicalAnswer(Aw.q, d), now, <<>>, "none")
            IN  w1.scored = 1 /\ Last(DetailsOf(w1, St.session_id)).ok
       /\ \A text \in MatchTexts :
            LET w1 == on_text_for_match(world, text, now, <<>>, "none")
            IN  (w1.scored = 1 /\ Last(DetailsOf(w1, St.session_id)).ok)
                => Last(DetailsOf(w1, St.session_id)).chosen_pairs = Aw.q.pairs

CallCount(fn, sid) ==
    Cardinality({ i \in 1..Len(calls) : calls[i].fn = fn /\ calls[i].session_id = sid })

\* C4: a session is finalized once: db.finish_session and db.add_points are
\* each called at most once for it, and exactly once, with the final score,
\* when it has reached FINISHED and its state is discarded.
C4_FinalizedOnce ==
    \A sid \in 1..Len(db.sessions) :
        /\ CallCount("finish_session", sid) <= 1
        /\ CallCount("add_points", sid) <= 1
        /\ (db.sessions[sid].finished /\ quiz = None)
             => /\ CallCount("finish_session", sid) = 1
                /\ CallCount("add_points", sid) = 1
                /\ \A i \in 1..Len(calls) :
                      calls[i].session_id = sid
                        => calls[i].score = db.sessions[sid].score[1]

\* The session has reached FINISHED: its state is discarded, or its row is
\* persisted as finished.
Finished ==
    \/ quiz = None
    \/ db.sessions[St.session_id].finished

\* C5: once the session is FINISHED, or with no session at all, a button press
\* or a text message is a silent no-op: score, transcript and database stay as
\* they are, no session starts and no persistence call is made.
C5_NoOpAfterFinished ==
    Finished
    => /\ \A data \in ButtonData :
            LET w1 == on_button(world, data, now, <<>>, "none")
            IN  w1.quiz = quiz /\ w1.db = db /\ w1.calls = calls
       /\ \A text \in MatchTexts :
            LET w1 == on_text_for_match(world, text, now, <<>>, "none")
            IN  w1.quiz = quiz /\ w1.db = db /\ w1.calls = calls

\* C6: in an active session, between two handler runs,
\* 0 <= current_index <= len(questions) and 0 <= score <= current_index.
C6_CursorAndScoreBounds ==
    (Active /\ flight = NoFlight) => /\ 0 <= St.current /\ St.current <= Len(St.questions)
              /\ 0 <= St.score /\ St.score <= St.current

\* C7: the transcript has exactly one entry per question, in question order:
\* in an active session, between two handler runs, len(details) =
\* current_index and the i-th entry records question i; a session persisted
\* as finished with every question passed has len(details) = len(questions).
C7_OneEntryPerQuestion ==
    /\ (Active /\ flight = NoFlight) =>
          /\ Len(St.details) = St.current
          /\ \A i \in 1..Len(St.details) :
                i <= Len(St.questions) /\ St.details[i].id = St.questions[i].id
    /\ \A sid \in 1..Len(db.sessions) :
          (db.sessions[sid].finished /\ db.sessions[sid].timer_minutes <= 0)
            => Len(db.sessions[sid].details[1]) = db.sessions[sid].total

\* C8: a multi-option press (callback_data "multi::<option>", not the confirm)
\* evaluates nothing and advances nothing in whatever state it arrives: score,
\* cursor, transcript and database stay as they are.
C8_ToggleNeverEvaluates ==
    \A data \in ButtonData :
        (data.prefix = "multi" /\ data.payload # "confirm")
        => LET w1 == on_button(world, data, now, <<>>, "none")
           IN  w1.scored = 0 /\ w1.quiz = quiz /\ w1.db = db

\* C9: the confirm of a multi question is evaluated as correct exactly when
\* the set of options pressed an odd number of times since the question was
\* rendered equals the canonical answers; that set is what the transcript
\* records as chosen.
C9_MultiConfirmParity ==
    (Active /\ aw # None /\ Aw.kind = "multi")
    => LET w1 == on_button(world, Confirm, now, <<>>, "none")
           odd == { o \in OptionPayloads : toggles[o] % 2 = 1 }
           entry == Last(DetailsOf(w1, St.session_id))
       IN  /\ w1.scored = 1
           /\ entry.type = "multi"
           /\ entry.chosen = odd
           /\ entry.ok = (odd = Aw.q.answers)

\* The answer "a" was pressed once and the option "b" twice; the confirm is
\* evaluated as correct.
C9_Witness ==
    /\ Active /\ aw # None /\ Aw.kind = "multi"
    /\ ev.op = "on_button" /\ ev.out = "toggle"
    /\ toggles["a"] = 1 /\ toggles["b"] = 2
    /\ LET w1 == on_button(world, Confirm, now, <<>>, "none")
       IN  w1.scored = 1 /\ Last(DetailsOf(w1, St.session_id)).ok

\* What a press on a single question does to score and transcript: correct
\* iff the payload is the canonical answer, score up by one iff correct, one
\* transcript entry.
SingleScored(data, w1) ==
    LET ok == (data.payload = Aw.q.answer)
        d1 == DetailsOf(w1, St.session_id)
    IN  /\ w1.scored = 1
        /\ d1 = Append(St.details, Last(d1))
        /\ Last(d1).type = "single" /\ Last(d1).id = Aw.q.id
        /\ Last(d1).chosen = data.payload
        /\ Last(d1).ok = ok
        /\ ScoreOf(w1, St.session_id) = St.score + (IF ok THEN 1 ELSE 0)

\* C10: a press on a single question is correct iff its payload is the
\* canonical answer, raises score by one iff correct, appends one transcript
\* entry, and advances current_index by exactly 1 (unless the session
\* finishes).
C10_SingleAdvancesByOne ==
    (Active /\ aw # None /\ Aw.kind = "single")
    => \A data \in ButtonData :
          LET w1 == on_button(world, data, now, <<>>, "none")
          IN  /\ SingleScored(data, w1)
              /\ w1.quiz # None => w1.quiz[1].current = St.current + 1

\* The bank questions select_questions filters for `topic`.
Pool(topic) == SelectSeq(load_all_questions, LAMBDA q : q.topic = topic)

\* The number of positions of qs that hold the question with this id.
Occurrences(qs, id) == Cardinality({ i \in 1..Len(qs) : qs[i].id = id })

\* C11: for every topic with at least one question and every requested count
\* n, the /test of an approved user selects exactly min(n, pool_size)
\* questions, each of the topic and no pool element twice, and the session it
\* starts has that many questions.
C11_SelectCount ==
    db.approved = 1 =>
      \A args \in AllQuizArgs :
        LET tp == test_cmd_topic(args)
        IN  tp # None =>
              \A qs \in select_questions(tp[1], args.n) :
                LET w1 == test_cmd(world, args, qs, now, <<>>, "none")
                IN  /\ Len(qs) = Min(args.n, Len(Pool(tp[1])))
                    /\ \A i \in 1..Len(qs) :
                          /\ qs[i].topic = tp[1]
                          /\ Occurrences(qs, qs[i].id)
                               <= Occurrences(Pool(tp[1]), qs[i].id)
                    /\ w1.out # "no_questions" =>
                          w1.db.sessions[Len(w1.db.sessions)].total
                            = Min(args.n, Len(Pool(tp[1])))

\* C12: a session is created (db.start_session called, session state stored)
\* only while the user's approved flag is 1.
C12_ApprovalGatesStart ==
    [][ (Len(db'.sessions) > Len(db.sessions) \/ (quiz = None /\ quiz' # None))
        => db.approved = 1 ]_vars

\* C13: when db.finish_session or db.add_points fails during finalization,
\* the failure propagates out of the handler that answered the last question,
\* whatever its type; it is never answered with the match parse-error reply.
C13_FinalizationFailurePropagates ==
    [][ (fails' > fails /\ ev'.op \in {"on_button", "on_text_for_match"})
        => ev'.out = "raised" ]_vars

\* The letter a piece of a match answer names.
TokenLetter(tok) == UpperStr(RemoveSpaces(tok))[1]

\* Two pieces of the answer name the same letter: the same piece twice, or one
\* letter paired with two numbers.
HasDuplicate(ts) ==
    \E i, j \in 1..Len(ts) : i < j /\ TokenLetter(ts[i]) = TokenLetter(ts[j])

\* C14: a match answer with a duplicate gets the parse-error reply and is not
\* evaluated: cursor, score and transcript stay as they are.
C14_DuplicateIsParseError ==
    (Active /\ aw # None /\ Aw.kind = "match")
    => \A ts \in TokenSeqs :
          HasDuplicate(ts)
          => on_text_for_match(world, JoinComma(ts), now, <<>>, "none")
               = [world EXCEPT !.out = "parse_error"]

\* C15: once the deadline has passed, the next interaction with the pending
\* question (a press while a single or multi question is awaited, a text
\* while a match question is awaited) leaves the session FINISHED: state
\* discarded and the row persisted as finished.
LeftFinished(w1) == w1.quiz = None /\ w1.db.sessions[St.session_id].finished

C15_ExpiryOnNextInteraction ==
    (Expired /\ aw # None)
    => /\ Aw.kind \in {"single", "multi"}
          => \A data \in ButtonData :
                LeftFinished(on_button(world, data, now, <<>>, "none"))
       /\ Aw.kind = "match"
          => \A text \in MatchTexts :
                LeftFinished(on_text_for_match(world, text, now, <<>>, "none"))

\* C16: when the selection is empty, start_quiz reports it and creates
\* nothing: no db.start_session, and the session state, the awaited question
\* and the database are as before the call.
C16_NoQuestionsCreatesNothing ==
    \A topic \in DOMAIN list_topics, n \in NValues, minutes \in MinutesValues :
        \A qs \in select_questions(topic, n) :
            qs = <<>>
            => start_quiz(world, qs, topic, minutes, now, <<>>, "none")
                 = [world EXCEPT !.out = "no_questions"]

\* A /test that selected nothing was answered while session 1 was active, and
\* session 1 is still the only one and still active.
C16_Witness ==
    /\ ev.op = "test_cmd" /\ ev.out = "no_questions"
    /\ Active /\ St.session_id = 1 /\ St.current = 1
    /\ Len(db.sessions) = 1 /\ ~db.sessions[1].finished

\* C17: a session gets the deadline start time + timer_minutes exactly when
\* it is started with timer_minutes > 0, and no deadline otherwise; as long as
\* the session lives, its deadline, its topic and its question list with the
\* option order stay as they were at the start.
C17_DeadlineAndFrame ==
    [][ /\ (Len(db'.sessions) > Len(db.sessions) /\ quiz' # None)
           => LET row == db'.sessions[Len(db'.sessions)]
              IN  /\ quiz'[1].session_id = Len(db'.sessions)
                  /\ quiz'[1].deadline
                       = IF row.timer_minutes > 0
                         THEN Some(now + row.timer_minutes) ELSE None
        /\ (quiz # None /\ quiz' # None /\ quiz'[1].session_id = St.session_id)
           => /\ quiz'[1].deadline = St.deadline
              /\ quiz'[1].topic = St.topic
              /\ quiz'[1].questions = St.questions ]_vars

\* A session started at time 1 with timer_minutes = 1 has deadline 2 and has
\* had its first question answered.
C17_Witness ==
    /\ Active /\ db.sessions[St.session_id].timer_minutes = 1
    /\ St.deadline = Some(2)
    /\ St.current >= 1 /\ St.details # <<>>

\* The persistence calls made for session sid, in order.
CallsFor(cs, sid) == SelectSeq(cs, LAMBDA c : c.session_id = sid)

\* The /test commands C18 is checked on.
RestartArgs == [topic : {Some("T1"), Some("T3")}, n : NValues, minutes : MinutesValues]

\* A /test that starts a session while another is active leaves a new
\* session_id, score 0, an empty transcript (persisted at once when nothing of
\* the new list can be asked) and the cursor at 0.
Restarted ==
    (Active /\ db.approved = 1)
    => \A args \in RestartArgs :
          \A qs \in select_questions(args.topic[1], args.n) :
             LET w1 == test_cmd(world, args, qs, now, <<>>, "none")
                 sid == Len(w1.db.sessions)
             IN  sid > Len(db.sessions)
                 => /\ sid # St.session_id
                    /\ IF w1.quiz # None
                       THEN /\ w1.quiz[1].session_id = sid
                            /\ w1.quiz[1].score = 0 /\ w1.quiz[1].details = <<>>
                            /\ w1.quiz[1].current = 0
                       ELSE /\ w1.db.sessions[sid].finished
                            /\ w1.db.sessions[sid].score = Some(0)
                            /\ w1.db.sessions[sid].details = Some(<<>>)

\* A session that is not the active one is never finalized: no step touches
\* its row, makes a call for it or makes it the active one again.
Abandoned ==
    \A sid \in 1..Len(db.sessions) :
        (quiz = None \/ St.session_id # sid)
        => /\ db'.sessions[sid] = db.sessions[sid]
           /\ CallsFor(calls', sid) = CallsFor(calls, sid)
           /\ (quiz' = None \/ quiz'[1].session_id # sid)

\* C18: a quiz started while a session is active replaces the session state
\* entirely (score 0, empty details, a new session_id, current_index 0), and
\* the abandoned session is never finalized: no db.finish_session and no
\* db.add_points is made for it, whatever follows.
C18_RestartAtZero == [] Restarted /\ [][Abandoned]_vars

\* Every question of qs is of a type the engine can ask.
AllKnown(qs) == \A i \in 1..Len(qs) : qs[i].type \in {"single", "multi", "match"}

\* C19: a session without deadline whose questions are all single, multi or
\* match is FINISHED exactly when as many submissions have been evaluated as
\* it has questions: while it is active between two handler runs fewer have
\* been evaluated, and the step that finalizes it persists len(questions)
\* evaluated submissions with total = len(questions).
C19_FinishedAtLastAnswer ==
    /\ [] ( (Active /\ flight = NoFlight /\ St.deadline = None
                    /\ AllKnown(St.questions))
            => Len(St.details) < Len(St.questions) )
    /\ [][ (Active /\ St.deadline = None /\ AllKnown(St.questions)
                   /\ quiz' = None /\ db'.sessions[St.session_id].finished)
           => /\ Len(db'.sessions[St.session_id].details[1]) = Len(St.questions)
              /\ db'.sessions[St.session_id].total = Len(St.questions) ]_vars

\* C20: with two presses of the same user in flight at once, each question is
\* scored at most once: the transcript never holds two entries for one
\* question and the score, live or persisted, never exceeds len(questions).
C20_ScoredOncePerQuestion ==
    /\ Active =>
          /\ \A i, j \in 1..Len(St.details) :
                St.details[i].id = St.details[j].id => i = j
          /\ St.score <= Len(St.questions)
    /\ \A sid \in 1..Len(db.sessions) :
          db.sessions[sid].finished =>
             /\ \A i, j \in 1..Len(db.sessions[sid].details[1]) :
                   db.sessions[sid].details[1][i].id = db.sessions[sid].details[1][j].id
                     => i = j
             /\ db.sessions[sid].score[1] <= db.sessions[sid].total

\* C21: topic listing and selection agree. Every topic list_topics reports
\* with count c >= 1 yields exactly c questions from select_questions(t, n)
\* for n >= c, so a press on a listed topic's button (n = 10) never ends in
\* the "no questions" reply.
C21_ListedTopicHasQuestions ==
    ev.op = "choose_topic_cb" =>
        /\ ev.out # "no_questions"
        /\ \A t \in DOMAIN list_topics :
              \A n \in {list_topics[t], 10} :
                 \A qs \in select_questions(t, n) : Len(qs) = list_topics[t]

\* The options the bank gives the question with this id.
OptionsOf(id) ==
    Range((CHOOSE q \in Range(load_all_questions) : q.id = id).options)

\* The prefix render_single / render_multi put on the buttons of a question
\* of this type.
PrefixOf(kind) == IF kind = "single" THEN "ans" ELSE "multi"

\* Every submission of this transcript is made of options of its question.
OwnOptionsOnly(details) ==
    \A i \in 1..Len(details) :
        /\ details[i].type = "single" => details[i].chosen \in OptionsOf(details[i].id)
        /\ details[i].type = "multi" => details[i].chosen \subseteq OptionsOf(details[i].id)

\* C22: every submission recorded for a single or multi question consists only
\* of options of that question, and a press from a keyboard of the other
\* archetype ("ans::" while a multi question is pending, "multi::" while a
\* single question is pending) is neither scored nor added to the pending
\* selection.
C22_OwnKeyboardOnly ==
    /\ Active => OwnOptionsOnly(St.details)
    /\ \A sid \in 1..Len(db.sessions) :
          db.sessions[sid].details # None => OwnOptionsOnly(db.sessions[sid].details[1])
    /\ (Active /\ aw # None /\ Aw.kind \in {"single", "multi"})
       => \A data \in ButtonData :
             data.prefix # PrefixOf(Aw.kind)
             => LET w1 == on_button(world, data, now, <<>>, "none")
                IN  w1.scored = 0 /\ w1.quiz = quiz /\ w1.aw = aw

\* C23: the session a /test creates never has more questions than the count n
\* the command asked for, whatever integer n test_cmd parsed; a request with
\* n <= 0 creates no session and no in-memory quiz.
C23_AtMostRequested ==
    db.approved = 1 =>
      \A args \in AllQuizArgs :
        LET tp == test_cmd_topic(args)
        IN  tp # None =>
              \A qs \in select_questions(tp[1], args.n) :
                LET w1 == test_cmd(world, args, qs, now, <<>>, "none")
                    created == Len(w1.db.sessions) > Len(db.sessions)
                IN  /\ created =>
                          /\ w1.db.sessions[Len(w1.db.sessions)].total <= args.n
                          /\ Len(w1.quiz[1].questions) <= args.n
                    /\ args.n <= 0 => ~created /\ w1.quiz = quiz

\* C24: whenever a session is active and no handler is under way, the stored
\* await record holds the question at questions[current] and its kind tag is
\* that question's type; a multi question just rendered has an empty pending
\* selection. Restarts and skipped questions of unknown type are included.
C24_AwaitMatchesCursor ==
    (Active /\ flight = NoFlight) =>
        /\ aw # None
        /\ St.current < Len(St.questions)
        /\ Aw.q = St.questions[St.current + 1]
        /\ Aw.kind = Aw.q.type
        /\ (ev.out = "asked" /\ Aw.kind = "multi") => Aw.chosen = {}

\* ------------------------------------------------- lazy startup (api/index.py)
\* The check after "await ensure_started()": webhook answers 500 and botinfo
\* the "tg_app not started" report when the application is not started;
\* otherwise the request goes on to its own work.
after_ensure(s, r) ==
    IF ~s.started \/ ~s.tg_app
    THEN [s EXCEPT !.req[r].pc = "done",
                   !.req[r].resp = IF s.req[r].kind = "webhook"
                                   THEN "500_not_started" ELSE "info_not_started"]
    ELSE [s EXCEPT !.req[r].pc = "process"]

\* except Exception inside the lock: last_error is set, _started stays as it
\* is, the lock is released and ensure_started returns.
ensure_started_failed(s, r) ==
    after_ensure([s EXCEPT !.last_error = TRUE, !.lock = 0], r)

\* ensure_started from the moment request r holds _lock up to its first await;
\* built is whether build_application() returns (it raises without a token or
\* a database).
ensure_started_locked_NoRecheck(s, r, built) ==
    IF built
    THEN [s EXCEPT !.tg_app = TRUE, !.builds = @ + 1, !.lock = r,
                   !.req[r].pc = "initialize"]
    ELSE ensure_started_failed(s, r)
ensure_started_locked(s, r, built) ==
    IF s.started THEN after_ensure([s EXCEPT !.lock = 0], r)
    ELSE IF built
         THEN [s EXCEPT !.tg_app = TRUE, !.builds = @ + 1, !.lock = r,
                        !.req[r].pc = "initialize"]
    ELSE ensure_started_failed(s, r)

\* Requests queued on _lock.
Waiters(s) == { r \in Requests : s.req[r].pc = "wait_lock" }

\* ensure_started from its call up to its first await: asyncio.Lock.acquire
\* returns at once when the lock is free and nobody waits for it.
ensure_started(s, r, built) ==
    IF s.started THEN after_ensure(s, r)
    ELSE IF s.lock = 0 /\ Waiters(s) = {}
         THEN ensure_started_locked(s, r, built)
    ELSE [s EXCEPT !.req[r].pc = "wait_lock", !.req[r].waited = TRUE]

\* "await tg_app.initialize()" returned (ok) or raised.
ensure_started_initialized(s, r, ok) ==
    IF ok THEN [s EXCEPT !.req[r].pc = "start"]
    ELSE ensure_started_failed(s, r)

\* "await tg_app.start()" returned (ok) or raised.
ensure_started_started(s, r, ok) ==
    IF ok
    THEN after_ensure([s EXCEPT !.started = TRUE, !.last_error = FALSE,
                                !.starts = @ + 1, !.lock = 0], r)
    ELSE ensure_started_failed(s, r)

\* The end of a request that runs no handler: botinfo reports the bot after
\* "await tg_app.bot.get_me()", webhook answers 500 "webhook error" when the
\* body read by "await request.body()" does not parse as an update.
serve(s, r) ==
    IF s.req[r].kind = "botinfo"
    THEN [s EXCEPT !.req[r].pc = "done", !.req[r].resp = "info"]
    ELSE [s EXCEPT !.req[r].pc = "done", !.req[r].resp = "500_error"]

\* "await tg_app.process_update(update)" of request r: the handler runs in
\* slot f and ran the stretch x. While the handler stands at an await the
\* request has no response; when the handler returned, process_update
\* returns and webhook answers 200. A slot given up lets the handler in the
\* slot behind it move up.
process_update(s, r, f, x) ==
    LET req == [q \in Requests |->
                   IF Returns(x) /\ f = 1 /\ s.req[q].slot = 2
                   THEN [s.req[q] EXCEPT !.slot = 1] ELSE s.req[q]]
    IN  [s EXCEPT !.req = [req EXCEPT ![r] =
            IF x.pc = "done"
            THEN [@ EXCEPT !.pc = "done", !.resp = "200", !.processed = TRUE, !.slot = 0]
            ELSE [@ EXCEPT !.processed = TRUE,
                           !.slot = IF x.pc = "last" THEN 0 ELSE f]]]

\* The commands of the updates sent to the webhook, and /test's arguments.
StartUpdates == {"/help", "/approve", "/test"}
StartQuizArgs == [topic : {Some("T1")}, n : {1}, minutes : {0}]
\* Sessions one behaviour creates.
StartSessions == 2

\* The handler build_application registered for a command.
HandlerOf(u) ==
    CASE u = "/help" -> "help_cmd"
      [] u = "/approve" -> "approve_cmd"
      [] u = "/test" -> "test_cmd"

\* The handler of an update from its start to its first await.
handler_stretch(u, w, args, questions, t) ==
    CASE u = "/help" -> Stretch(help_cmd(w), "last", None)
      [] u = "/approve" -> Stretch(approve_cmd(w), "last", None)
      [] u = "/test" -> test_cmd_stretch(w, args, questions, t, "none")

\* Whether a step of the start section can raise: while fewer than MaxFail
\* have.
Outcomes == {TRUE} \cup (IF fails < MaxFail THEN {FALSE} ELSE {})

\* Request r took a step that leaves the module state s1.
Served(r, s1, ok) ==
    /\ srv' = s1
    /\ fails' = IF ok THEN fails ELSE fails + 1
    /\ ev' = [op |-> s1.req[r].kind, out |-> s1.req[r].resp]
    /\ UNCHANGED <<quiz, aw, db, calls, now, toggles, flight>>

\* A request arrives on /api/webhook or /api/botinfo.
RequestArrives(r) ==
    /\ srv.req[r].pc \in {"idle", "done"}
    /\ srv.builds <= MaxFail + 1
    /\ \E kind \in {"webhook", "botinfo"}, valid \in BOOLEAN :
         LET s0 == [srv EXCEPT !.req[r] = [IdleRequest EXCEPT !.kind = kind,
                                                              !.valid = valid]]
             builds == ~s0.started /\ s0.lock = 0 /\ Waiters(s0) = {}
         IN  \E built \in (IF builds THEN Outcomes ELSE {TRUE}) :
                Served(r, ensure_started(s0, r, built), built)

\* The lock was released and the waiting request r acquires it.
LockGranted(r) ==
    /\ srv.req[r].pc = "wait_lock"
    /\ srv.lock = 0
    /\ \E built \in (IF srv.started THEN {TRUE} ELSE Outcomes) :
          Served(r, ensure_started_locked(srv, r, built), built)

InitializeReturns(r) ==
    /\ srv.req[r].pc = "initialize"
    /\ \E ok \in Outcomes : Served(r, ensure_started_initialized(srv, r, ok), ok)

StartReturns(r) ==
    /\ srv.req[r].pc = "start"
    /\ \E ok \in Outcomes : Served(r, ensure_started_started(srv, r, ok), ok)

\* "await tg_app.bot.get_me()" of botinfo returned, or "await request.body()"
\* of webhook returned a body that does not parse.
Serves(r) ==
    /\ srv.req[r].pc = "process"
    /\ ~srv.req[r].processed
    /\ srv.req[r].kind = "botinfo" \/ ~srv.req[r].valid
    /\ Served(r, serve(srv, r), TRUE)

\* "await request.body()" of webhook returned an update: process_update
\* calls its handler, which runs to its first await.
Processes(r) ==
    /\ srv.req[r].pc = "process"
    /\ ~srv.req[r].processed
    /\ srv.req[r].kind = "webhook" /\ srv.req[r].valid
    /\ \E f \in Requests, u \in StartUpdates, args \in StartQuizArgs :
         /\ Free(f)
         /\ \E questions \in (IF u = "/test" /\ db.approved = 1
                               THEN select_questions(test_cmd_topic(args)[1], args.n)
                               ELSE {<<>>}) :
              LET x == handler_stretch(u, world, args, questions, now)
              IN  /\ Len(x.w.db.sessions) <= StartSessions
                  /\ Moved(f, HandlerOf(u), NoData, x)
                  /\ srv' = process_update(srv, r, f, x)

\* The handler of request r resumes after its start message or after the
\* unknown-type notice and runs to its next await or its end.
HandlerResumes(r) ==
    /\ srv.req[r].pc = "process"
    /\ srv.req[r].slot # 0
    /\ LET f == srv.req[r].slot
       IN  /\ flight[f].pc \in {"starting", "replying", "skipping"}
           /\ \E right \in RightsAfter(resumed(f, <<>>, "none")) :
                 LET x == resumed(f, right, "none")
                 IN  /\ Moved(f, flight[f].op, NoData, x)
                     /\ srv' = process_update(srv, r, f, x)

\* The handler of request r resumes after the question was sent, stores the
\* await record and returns.
HandlerStores(r) ==
    /\ srv.req[r].pc = "process"
    /\ srv.req[r].slot # 0
    /\ Stored(srv.req[r].slot)
    /\ srv' = process_update(srv, r, srv.req[r].slot, Stretch(world, "done", None))

\* The last Telegram call of the handler of request r returned: the handler
\* returns, process_update returns and webhook answers 200.
Responds(r) ==
    /\ srv.req[r].pc = "process"
    /\ srv.req[r].processed
    /\ srv.req[r].slot = 0
    /\ Served(r, [srv EXCEPT !.req[r].pc = "done", !.req[r].resp = "200"], TRUE)

\* The process from the import of api/index.py on, serving up to two requests
\* at a time, in which up to MaxFail steps of the start section raise. The
\* updates are /help, the administrator's /approve and the user's
\* '/test topic=T1 n=1'; their handlers run await by await inside
\* process_update, and every persistence call succeeds.
InitStart ==
    /\ srv = AtImport
    /\ flight = NoFlight
    /\ quiz = None
    /\ aw = None
    /\ db = [sessions |-> <<>>, points |-> 0,
             topic_points |-> [k \in DOMAIN list_topics |-> 0], approved |-> 0]
    /\ calls = <<>>
    /\ now = 0
    /\ fails = 0
    /\ toggles = NoToggles
    /\ ev = [op |-> "init", out |-> "none"]

NextStart ==
    \/ \E r \in Requests : RequestArrives(r)
    \/ \E r \in Requests : LockGranted(r)
    \/ \E r \in Requests : InitializeReturns(r)
    \/ \E r \in Requests : StartReturns(r)
    \/ \E r \in Requests : Serves(r)
    \/ \E r \in Requests : Processes(r)
    \/ \E r \in Requests : HandlerResumes(r)
    \/ \E r \in Requests : HandlerStores(r)
    \/ \E r \in Requests : Responds(r)

SpecStart == InitStart /\ [][NextStart]_vars

\* Requests executing the section build_application / initialize / start.
InStartSection == { r \in Requests : srv.req[r].pc \in {"initialize", "start"} }

\* What holds of the startup in every state: one request at most is in the
\* start section, the section ran to its end once at most, and no update was
\* handed to a handler while the application is not started.
C25_StartupState ==
    /\ Cardinality(InStartSection) <= 1
    /\ srv.starts <= 1
    /\ srv.builds <= fails + 1
    /\ srv.started => srv.tg_app /\ srv.starts = 1 /\ InStartSection = {}
    /\ ~srv.started => flight = NoFlight /\ quiz = None /\ aw = None
                          /\ db.sessions = <<>> /\ db.approved = 0
    /\ \A r \in Requests :
          /\ srv.req[r].pc = "process" => srv.started
          /\ srv.req[r].processed => srv.started /\ srv.req[r].resp \in {"none", "200"}
          /\ srv.req[r].resp = "200" => srv.req[r].processed
          /\ srv.req[r].resp \in {"500_not_started", "info_not_started"}
                => ~srv.req[r].processed

\* What holds of every step of the startup.
C25_StartupStep ==
    /\ srv.started => srv'.started /\ srv'.builds = srv.builds
    /\ fails' > fails => ~srv'.started /\ srv'.lock = 0 /\ srv'.last_error
    /\ \A r \in Requests :
          (srv.req[r].pc # "done" /\ srv'.req[r].pc = "done" /\ ~srv'.started)
          => /\ ~srv'.req[r].processed
             /\ srv'.req[r].kind = "webhook" => srv'.req[r].resp = "500_not_started"
             /\ UNCHANGED <<quiz, aw, db, calls, flight>>

\* C25: lazy startup is single-shot and safe under concurrent requests. At
\* most one request at a time executes build_application / initialize /
\* start; after one successful start the section is never executed again;
\* _started implies tg_app is set; a failed start leaves _started False with
\* the lock released, so that a later request retries; and a webhook request
\* that finds the application not started answers 500 without processing the
\* update.
C25_SingleShotStartup == [](C25_StartupState) /\ [][C25_StartupStep]_vars

\* A first request's start failed and was answered 500 without processing;
\* the request that waited for the lock meanwhile retried, started the
\* application, had its update handled (the administrator's /approve) and
\* answered 200.
C25_Witness ==
    /\ srv.started /\ fails >= 1
    /\ srv.req[1].resp = "500_not_started" /\ ~srv.req[1].processed
    /\ srv.req[2].waited /\ srv.req[2].processed /\ srv.req[2].resp = "200"
    /\ ev.op = "webhook" /\ db.approved = 1 /\ db.sessions = <<>>

====
